---------------------------- MODULE Spec2Model ----------------------------
(***************************************************************************)
(* A model of the VCP plugin manager (Plugin.js, kept as                   *)
(* src/unnamed/part_005): the manifest map with its local and distributed  *)
(* entries, the placeholder table, the message-preprocessor order and its  *)
(* order file, loadPlugins with its await points, and the per-plugin       *)
(* configuration resolver; and of the programs around it: the timestamp    *)
(* of tool results, the static plugin command, the GroupChat server and    *)
(* its launcher, LinuxShellExecutor.execute, FileFetcherServer.fetchFile   *)
(* and roleDivider.process.                                                *)
(***************************************************************************)
EXTENDS Integers, Sequences, FiniteSets, TLC

VARIABLES
    plugins,                     \* this.plugins: name -> manifest
    staticPlaceholderValues,     \* this.staticPlaceholderValues: key -> text
    scheduledJobs,               \* this.scheduledJobs: name -> its job's plugin
    messagePreprocessors,        \* this.messagePreprocessors: name -> module
    preprocessorOrder,           \* this.preprocessorOrder: sequence of names
    serviceModules,              \* this.serviceModules: name -> module
    individualPluginDescriptions,\* keys of this.individualPluginDescriptions
    disk,                        \* PLUGIN_DIR: folder -> its files
    orderFile,                   \* preprocessor_order.json
    lp,                          \* the activation of loadPlugins, if any
    fsEdits,                     \* filesystem changes made so far
    nLoads,                      \* completed runs of loadPlugins
    lastLoad,                    \* what the previous completed load left
    fsDirty,                     \* the filesystem changed since that load
    evicted,                     \* the session end handled by the last step
    ppMessages,                  \* the message array a request carries
    ppLast,                      \* the last preprocessor step of the request
    cfgManifest,                 \* argument of _getPluginConfig
    cfgEnv,                      \* process.env seen by _getPluginConfig
    cfgOut,                      \* what _getPluginConfig returned
    isReloading,                 \* this.isReloading
    reloadTimeout,               \* this.reloadTimeout: handle of a timer
    timers,                      \* live timers: handle -> milliseconds left
    webSocketServer,             \* this.webSocketServer has been set
    reloads,                     \* runs of loadPlugins in progress, by caller
    sinceEvent,                  \* milliseconds since the last handled event
    nEvents,                     \* watcher events delivered so far
    nAdminCalls,                 \* calls of hotReloadPluginsAndOrder so far
    pendingEvents,               \* events handled since the last timer fired
    orderStale,                  \* order file saved and no reload begun since
    manifestStale,               \* watcher event delivered, no reload begun since
    lastReload,                  \* the hot reload that settled last
    lastFire,                    \* the reload timer that fired last
    refreshing,                  \* runs of _updateStaticPluginValue, in order
    exec,                        \* one call of executePlugin
    call,                        \* one top-level call of processToolCall
    stamp,                       \* one call of _getFormattedLocalTimestamp
    cmd,                         \* one call of _executeStaticPluginCommand
    chat,                        \* the GroupChatServer and its sockets
    shell,                       \* one call of LinuxShellExecutor.execute
    fetcher,                     \* the FileFetcherServer's caches and clock
    divider,                     \* one call of roleDivider.process
    launcher                     \* the GroupChat service launcher

vars == <<plugins, staticPlaceholderValues, scheduledJobs, messagePreprocessors,
          preprocessorOrder, serviceModules, individualPluginDescriptions,
          disk, orderFile, lp, fsEdits, nLoads, lastLoad, fsDirty, evicted,
          ppMessages, ppLast, cfgManifest, cfgEnv, cfgOut,
          isReloading, reloadTimeout, timers, webSocketServer, reloads,
          sinceEvent, nEvents, nAdminCalls, pendingEvents, orderStale,
          manifestStale, lastReload, lastFire, refreshing, exec, call,
          stamp, cmd, chat, shell, fetcher, divider, launcher>>

managerVars == <<plugins, staticPlaceholderValues, scheduledJobs,
                 messagePreprocessors, preprocessorOrder, serviceModules,
                 individualPluginDescriptions>>
fsVars == <<disk, orderFile>>
loadVars == <<lp, fsEdits, nLoads>>
historyVars == <<lastLoad, fsDirty, evicted>>
ppVars == <<ppMessages, ppLast>>
cfgVars == <<cfgManifest, cfgEnv, cfgOut>>
watchVars == <<isReloading, reloadTimeout, timers, webSocketServer, reloads,
               sinceEvent, nEvents, nAdminCalls, pendingEvents, orderStale,
               manifestStale, lastReload, lastFire>>
staticVars == <<refreshing>>
otherVars == <<stamp, cmd, chat, shell, fetcher, divider, launcher>>
execVars == <<exec, call, otherVars>>
baseVars == <<managerVars, fsVars, loadVars, historyVars, cfgVars, ppVars,
              watchVars, staticVars, exec, call>>

-----------------------------------------------------------------------------
(* Maps (JavaScript Map / plain object) as functions with a finite domain. *)

EmptyMap == [k \in {} |-> k]
Has(m, k) == k \in DOMAIN m
Put(m, k, v) == [x \in DOMAIN m \cup {k} |-> IF x = k THEN v ELSE m[x]]
Remove(m, k) == [x \in DOMAIN m \ {k} |-> m[x]]
Range(s) == {s[i] : i \in DOMAIN s}

-----------------------------------------------------------------------------
(* Values of a resolved configuration: a string (a sequence of characters),*)
(* an integer, a boolean or undefined.                                     *)

StrV(s) == [t |-> "string", s |-> s, i |-> 0, b |-> FALSE]
IntV(n) == [t |-> "integer", s |-> <<>>, i |-> n, b |-> FALSE]
BoolV(x) == [t |-> "boolean", s |-> <<>>, i |-> 0, b |-> x]
Undefined == [t |-> "undefined", s |-> <<>>, i |-> 0, b |-> FALSE]

Digits == {"0", "1", "2", "3", "4", "5", "6", "7", "8", "9"}
DigitVal(c) ==
    CASE c = "0" -> 0 [] c = "1" -> 1 [] c = "2" -> 2 [] c = "3" -> 3
      [] c = "4" -> 4 [] c = "5" -> 5 [] c = "6" -> 6 [] c = "7" -> 7
      [] c = "8" -> 8 [] c = "9" -> 9
WhiteSpace == {" "}

(* String.prototype.toLowerCase on the letters the model uses. *)
LowerChar(c) ==
    CASE c = "T" -> "t" [] c = "R" -> "r" [] c = "U" -> "u" [] c = "E" -> "e"
      [] c = "F" -> "f" [] c = "A" -> "a" [] c = "L" -> "l" [] c = "S" -> "s"
      [] OTHER -> c
toLowerCase(s) == [i \in DOMAIN s |-> LowerChar(s[i])]

RECURSIVE SkipSpace(_)
SkipSpace(s) ==
    IF s # <<>> /\ Head(s) \in WhiteSpace THEN SkipSpace(Tail(s)) ELSE s

RECURSIVE DigitPrefix(_)
DigitPrefix(s) ==
    IF s # <<>> /\ Head(s) \in Digits
    THEN <<Head(s)>> \o DigitPrefix(Tail(s))
    ELSE <<>>

RECURSIVE DigitsValue(_)
DigitsValue(ds) ==
    IF ds = <<>> THEN 0
    ELSE 10 * DigitsValue(SubSeq(ds, 1, Len(ds) - 1)) + DigitVal(ds[Len(ds)])

NaNV == [t |-> "NaN", s |-> <<>>, i |-> 0, b |-> FALSE]
(* parseInt(s, 10): leading white space is skipped, one sign is accepted,  *)
(* the longest run of decimal digits is the number; no digit gives NaN.    *)
parseInt(s) ==
    LET t == SkipSpace(s)
        neg == t # <<>> /\ Head(t) = "-"
        u == IF t # <<>> /\ Head(t) \in {"-", "+"} THEN Tail(t) ELSE t
        ds == DigitPrefix(u)
    IN IF ds = <<>> THEN NaNV
       ELSE IF neg THEN IntV(0 - DigitsValue(ds)) ELSE IntV(DigitsValue(ds))

TrueText == <<"t", "r", "u", "e">>

(* One pass of the loop over configSchema: the coercion of a raw string by *)
(* the type the schema declares for the key.                               *)
CoerceBySchema(expectedType, rawValue) ==
    IF expectedType = "integer"
    THEN LET value == parseInt(rawValue)
         IN IF value = NaNV THEN Undefined ELSE value
    ELSE IF expectedType = "boolean"
    THEN BoolV(toLowerCase(rawValue) = TrueText)
    ELSE StrV(rawValue)

(* The same resolver with process.env consulted before the plugin's own    *)
(* config.env.                                                             *)
getPluginConfig_envFirst(pluginManifest, globalEnv) ==
    LET pluginSpecificEnv == pluginManifest.pluginSpecificEnvConfig
        schema == pluginManifest.configSchema
        keys == {key \in DOMAIN schema :
                    Has(pluginSpecificEnv, key) \/ Has(globalEnv, key)}
        raw(key) == IF Has(globalEnv, key) THEN globalEnv[key]
                    ELSE pluginSpecificEnv[key]
        config == [key \in keys |-> CoerceBySchema(schema[key], raw(key))]
    IN IF Has(globalEnv, "DebugMode")
       THEN Put(config, "DebugMode",
                BoolV(toLowerCase(globalEnv["DebugMode"]) = TrueText))
       ELSE IF Has(pluginSpecificEnv, "DebugMode")
       THEN Put(config, "DebugMode",
                BoolV(toLowerCase(pluginSpecificEnv["DebugMode"]) = TrueText))
       ELSE IF ~Has(config, "DebugMode")
       THEN Put(config, "DebugMode", BoolV(FALSE))
       ELSE config

(* _getPluginConfig(pluginManifest): the loop over configSchema, then the  *)
(* DebugMode rule.  An absent configSchema or pluginSpecificEnvConfig is   *)
(* the empty map.                                                          *)
getPluginConfig(pluginManifest, globalEnv) ==
    LET pluginSpecificEnv == pluginManifest.pluginSpecificEnvConfig
        schema == pluginManifest.configSchema
        keys == {key \in DOMAIN schema :
                    Has(pluginSpecificEnv, key) \/ Has(globalEnv, key)}
        rawValue(key) == IF Has(pluginSpecificEnv, key)
                         THEN pluginSpecificEnv[key]
                         ELSE globalEnv[key]
        config == [key \in keys |-> CoerceBySchema(schema[key], rawValue(key))]
    IN IF Has(pluginSpecificEnv, "DebugMode")
       THEN Put(config, "DebugMode",
                BoolV(toLowerCase(pluginSpecificEnv["DebugMode"]) = TrueText))
       ELSE IF Has(globalEnv, "DebugMode")
       THEN Put(config, "DebugMode",
                BoolV(toLowerCase(globalEnv["DebugMode"]) = TrueText))
       ELSE IF ~Has(config, "DebugMode")
       THEN Put(config, "DebugMode", BoolV(FALSE))
       ELSE config

(* effectiveConfig[configKey]: reading a key the object lacks is undefined. *)
ConfigValue(config, configKey) ==
    IF Has(config, configKey) THEN config[configKey] ELSE Undefined

-----------------------------------------------------------------------------
(* The resolver on its own: a manifest and a process environment are drawn *)
(* from bounded sets and _getPluginConfig is applied to them.              *)

CfgKey == "K"
SchemaTypes == {"integer", "boolean", "string"}
RawValues == { <<>>, <<"4", "2">>, <<"-", "7">>, <<" ", "1", "2", "a">>,
               <<"a", "b", "c">>, <<"t", "r", "u", "e">>,
               <<"T", "r", "U", "E">>, <<"f", "a", "l", "s", "e">> }
DebugRawValues == { <<"t", "r", "u", "e">>, <<"T", "R", "U", "E">>,
                    <<"f", "a", "l", "s", "e">>, <<"1">> }

(* The maps over the keys K and DebugMode, each key absent or bound in S/D. *)
MapsOver(S, D) ==
    { [k \in ks |-> IF k = CfgKey THEN v ELSE d] :
        ks \in SUBSET {CfgKey, "DebugMode"}, v \in S, d \in D }

CfgManifests ==
    { [configSchema |-> sc, pluginSpecificEnvConfig |-> pe] :
        sc \in MapsOver(SchemaTypes, SchemaTypes),
        pe \in MapsOver(RawValues, DebugRawValues) }
CfgEnvs == MapsOver(RawValues, DebugRawValues)

NotRun == [done |-> FALSE, config |-> EmptyMap]

-----------------------------------------------------------------------------
(* The plugin directory, manifests and modules.                            *)

Servers == {"S1", "S2"}
NoServer == "none"
NoPath == "none"
NoEntry == "none"
NoCron == "none"

(* process.env of the server process, as far as plugins read it. *)
ProcessEnv == ("K" :> <<"7">>)

(* plugin-manifest.json of a local plugin.  A message preprocessor names   *)
(* a script and the direct protocol; a synchronous plugin names a command. *)
DiskManifest(name, pluginType) ==
    [name |-> name, pluginType |-> pluginType,
     entryPoint |-> IF pluginType \in {"messagePreprocessor", "service",
                                       "hybridservice"}
                    THEN "script" ELSE "command",
     protocol |-> IF pluginType \in {"messagePreprocessor", "service",
                                     "hybridservice"}
                  THEN "direct" ELSE "stdio",
     displayName |-> name,
     configSchema |-> ("K" :> "integer"),
     invocationCommands |-> (pluginType = "synchronous"),
     refreshIntervalCron |-> NoCron,
     systemPromptPlaceholders |-> {}]

(* A manifest file without an entryPoint. *)
BrokenManifest(name) ==
    [DiskManifest(name, "synchronous") EXCEPT !.entryPoint = NoEntry]

NoManifest == [none |-> TRUE]
NoEnvFile == [exists |-> FALSE, vars |-> EmptyMap]
EnvFile(v) == [exists |-> TRUE, vars |-> ("K" :> v)]
Folder(manifest, env) == [manifest |-> manifest, env |-> env]

(* The module a plugin folder's script exports. *)
ModuleOf(folder, manifest) ==
    [path |-> folder, processMessages |-> TRUE]

(* The manifest a distributed server announces for a tool. *)
ToolManifest(name) ==
    [name |-> name, pluginType |-> "synchronous", entryPoint |-> "command",
     protocol |-> "stdio", displayName |-> name, configSchema |-> EmptyMap,
     invocationCommands |-> TRUE,
     refreshIntervalCron |-> NoCron, systemPromptPlaceholders |-> {}]

(* The fields loadPlugins adds to a manifest it read from a folder. *)
LocalEntry(manifest, pluginPath, envConfig) ==
    [name |-> manifest.name, pluginType |-> manifest.pluginType,
     entryPoint |-> manifest.entryPoint, protocol |-> manifest.protocol,
     displayName |-> manifest.displayName,
     configSchema |-> manifest.configSchema,
     invocationCommands |-> manifest.invocationCommands,
     refreshIntervalCron |-> manifest.refreshIntervalCron,
     systemPromptPlaceholders |-> manifest.systemPromptPlaceholders,
     basePath |-> pluginPath, pluginSpecificEnvConfig |-> envConfig,
     isDistributed |-> FALSE, serverId |-> NoServer]

CloudPrefix == "[cloud] "
(* The fields registerDistributedTools sets on a tool manifest. *)
DistributedEntry(toolManifest, serverId) ==
    [name |-> toolManifest.name, pluginType |-> toolManifest.pluginType,
     entryPoint |-> toolManifest.entryPoint,
     protocol |-> toolManifest.protocol,
     displayName |-> CloudPrefix \o toolManifest.displayName,
     configSchema |-> toolManifest.configSchema,
     invocationCommands |-> toolManifest.invocationCommands,
     refreshIntervalCron |-> toolManifest.refreshIntervalCron,
     systemPromptPlaceholders |-> toolManifest.systemPromptPlaceholders,
     basePath |-> NoPath, pluginSpecificEnvConfig |-> EmptyMap,
     isDistributed |-> TRUE, serverId |-> serverId]

(* preprocessor_order.json: absent, or a JSON array of names, or a file    *)
(* that does not parse to an array.                                        *)
NoOrderFile == [exists |-> FALSE, array |-> FALSE, names |-> <<>>]
OrderArray(names) == [exists |-> TRUE, array |-> TRUE, names |-> names]
BadOrderFile == [exists |-> TRUE, array |-> FALSE, names |-> <<>>]

-----------------------------------------------------------------------------
(* Array.prototype.sort() on names: ascending by UTF-16 code unit.         *)

CodeUnit(name) ==
    CASE name = "A" -> 65 [] name = "B" -> 66 [] name = "C" -> 67
      [] name = "D" -> 68 [] name = "T" -> 84 [] OTHER -> 0

(* The sort that puts the greatest name first. *)
RECURSIVE SortNames_descending(_)
SortNames_descending(S) ==
    IF S = {} THEN <<>>
    ELSE LET first == CHOOSE x \in S : \A y \in S : CodeUnit(x) >= CodeUnit(y)
         IN <<first>> \o SortNames_descending(S \ {first})

(* Array.prototype.sort() of the names: ascending by code unit. *)
RECURSIVE SortNames(_)
SortNames(S) ==
    IF S = {} THEN <<>>
    ELSE LET first == CHOOSE x \in S : \A y \in S : CodeUnit(x) <= CodeUnit(y)
         IN <<first>> \o SortNames(S \ {first})

(* The loop over savedOrder: a saved name still available is pushed and    *)
(* taken out of availablePlugins.  Gives <<finalOrder, availablePlugins>>. *)
RECURSIVE KeepSaved(_, _, _)
KeepSaved(savedOrder, availablePlugins, finalOrder) ==
    IF savedOrder = <<>> THEN <<finalOrder, availablePlugins>>
    ELSE IF Head(savedOrder) \in availablePlugins
    THEN KeepSaved(Tail(savedOrder), availablePlugins \ {Head(savedOrder)},
                   Append(finalOrder, Head(savedOrder)))
    ELSE KeepSaved(Tail(savedOrder), availablePlugins, finalOrder)

(* finalOrder for the order file as read (a missing, unparsable or         *)
(* non-array file contributes nothing) and the discovered preprocessors.   *)
ReconcileOrder(file, discovered) ==
    LET kept == IF file.exists /\ file.array
                THEN KeepSaved(file.names, discovered, <<>>)
                ELSE <<(<<>>), discovered>>
    IN kept[1] \o SortNames(kept[2])

-----------------------------------------------------------------------------
(* Bounds of the model.                                                    *)

MaxLoads == 2        \* runs of loadPlugins in one behaviour
MaxFsEdits == 1      \* changes made to the plugin directory and order file

Folders == <<"d1", "d2", "d3">>     \* fs.readdir(PLUGIN_DIR), in its order

-----------------------------------------------------------------------------
(* Reads of the manager's state.                                           *)

(* buildVCPDescription: one key VCP<name> per plugin that has invocation   *)
(* commands with a description.                                           *)
buildVCPDescription(pl) ==
    {"VCP" \o pl[n].name : n \in {x \in DOMAIN pl : pl[x].invocationCommands}}

NotFoundText(placeholder) == "[Placeholder " \o placeholder \o " not found]"
getPlaceholderValue(placeholder) ==
    IF Has(staticPlaceholderValues, placeholder)
       /\ staticPlaceholderValues[placeholder] # ""
    THEN staticPlaceholderValues[placeholder]
    ELSE NotFoundText(placeholder)

NoPlugin == [none |-> TRUE]
getPlugin(name) == IF Has(plugins, name) THEN plugins[name] ELSE NoPlugin

getResolvedPluginConfigValue(pluginName, configKey) ==
    IF ~Has(plugins, pluginName) THEN Undefined
    ELSE ConfigValue(getPluginConfig(plugins[pluginName], ProcessEnv),
                     configKey)

(* processToolCall, its resolution of the tool name: an unknown name       *)
(* throws the not-found error, a known one goes on to be dispatched.       *)
processToolCall(toolName) ==
    IF ~Has(plugins, toolName)
    THEN [thrown |-> TRUE, kind |-> "plugin_not_found", plugin |-> NoPlugin]
    ELSE [thrown |-> FALSE, kind |-> "dispatch", plugin |-> plugins[toolName]]

-----------------------------------------------------------------------------
(* loadPlugins.  The function is async: each await (readdir, the reads of  *)
(* a manifest and of config.env, access, the read and the write of the     *)
(* order file) ends a step, and other handlers may run between two steps.  *)
(* The modules of the model export no initialize function.                 *)

Idle == [pc |-> "idle", folders |-> <<>>, manifest |-> NoManifest,
         discoveredPreprocessors |-> EmptyMap, finalOrder |-> <<>>]

(* The map loadPlugins starts from: the entries it keeps of this.plugins. *)
KeptEntries(pl) ==
    [n \in {x \in DOMAIN pl : ~pl[x].isDistributed} |-> pl[n]]

(* What a completed load leaves, as the next load is compared with it. *)
Snapshot(ok, pl, order, modules, jobs) ==
    [ok |-> ok, plugins |-> pl, preprocessorOrder |-> order,
     messagePreprocessors |-> modules, scheduledJobs |-> jobs]
NoLoad == Snapshot(FALSE, EmptyMap, <<>>, EmptyMap, EmptyMap)

loadPlugins_begin ==
    /\ lp.pc = "idle"
    /\ nLoads < MaxLoads
    /\ plugins' = KeptEntries(plugins)
    /\ messagePreprocessors' = EmptyMap
    /\ staticPlaceholderValues' = EmptyMap
    /\ serviceModules' = EmptyMap
    /\ lp' = [Idle EXCEPT !.pc = "readdir"]
    /\ UNCHANGED <<scheduledJobs, preprocessorOrder,
                   individualPluginDescriptions, fsVars, fsEdits, nLoads,
                   cfgVars, ppVars>>

AfterFolder(rest) == IF rest = <<>> THEN "access" ELSE "manifest"

loadPlugins_readdir ==
    /\ lp.pc = "readdir"
    /\ lp' = [lp EXCEPT !.pc = AfterFolder(Folders), !.folders = Folders]
    /\ UNCHANGED <<managerVars, fsVars, fsEdits, nLoads, cfgVars, ppVars>>

(* fs.readdir rejects: the outer catch logs, the load is over. *)
loadPlugins_readdirFails ==
    /\ lp.pc = "readdir"
    /\ lp' = Idle
    /\ nLoads' = nLoads + 1
    /\ UNCHANGED <<managerVars, fsVars, fsEdits, cfgVars, ppVars>>

(* The manifest of the next folder has been read and parsed. *)
loadPlugins_readManifest ==
    /\ lp.pc = "manifest"
    /\ LET folder == Head(lp.folders)
           manifest == disk[folder].manifest
           skipped == \/ manifest = NoManifest
                      \/ manifest.entryPoint = NoEntry
                      \/ Has(plugins, manifest.name)
       IN lp' = IF skipped
                THEN [lp EXCEPT !.pc = AfterFolder(Tail(lp.folders)),
                                !.folders = Tail(lp.folders)]
                ELSE [lp EXCEPT !.pc = "env", !.manifest = manifest]
    /\ UNCHANGED <<managerVars, fsVars, fsEdits, nLoads, cfgVars, ppVars>>

IsPreprocessor(manifest) ==
    manifest.pluginType \in {"messagePreprocessor", "hybridservice"}
IsService(manifest) == manifest.pluginType \in {"service", "hybridservice"}

(* config.env of the folder has been read (or found missing): the entry is *)
(* stored and the plugin's module, if it has one, is required.             *)
loadPlugins_readConfigEnv ==
    /\ lp.pc = "env"
    /\ LET folder == Head(lp.folders)
           env == disk[folder].env
           manifest == LocalEntry(lp.manifest, folder,
                                  IF env.exists THEN env.vars ELSE EmptyMap)
           loaded == /\ IsPreprocessor(manifest) \/ IsService(manifest)
                     /\ manifest.entryPoint = "script"
                     /\ manifest.protocol = "direct"
           module == ModuleOf(folder, manifest)
       IN /\ plugins' = Put(plugins, manifest.name, manifest)
          /\ serviceModules' =
                IF loaded /\ IsService(manifest)
                THEN Put(serviceModules, manifest.name,
                         [manifest |-> manifest, module |-> module])
                ELSE serviceModules
          /\ lp' = [lp EXCEPT
                      !.pc = AfterFolder(Tail(lp.folders)),
                      !.folders = Tail(lp.folders),
                      !.manifest = NoManifest,
                      !.discoveredPreprocessors =
                          IF loaded /\ IsPreprocessor(manifest)
                                    /\ module.processMessages
                          THEN Put(@, manifest.name, module) ELSE @]
    /\ UNCHANGED <<staticPlaceholderValues, scheduledJobs,
                   messagePreprocessors, preprocessorOrder,
                   individualPluginDescriptions, fsVars, fsEdits, nLoads,
                   cfgVars, ppVars>>

(* The end of loadPlugins: the modules are registered in finalOrder, the   *)
(* order is stored and the descriptions are rebuilt.                       *)
FinishLoad(finalOrder) ==
    /\ messagePreprocessors' =
          [n \in DOMAIN messagePreprocessors \cup Range(finalOrder) |->
              IF n \in Range(finalOrder)
              THEN lp.discoveredPreprocessors[n]
              ELSE messagePreprocessors[n]]
    /\ preprocessorOrder' = finalOrder
    /\ individualPluginDescriptions' = buildVCPDescription(plugins)
    /\ lp' = Idle
    /\ nLoads' = nLoads + 1
    /\ UNCHANGED <<plugins, staticPlaceholderValues, scheduledJobs,
                   serviceModules, disk, fsEdits, cfgVars, ppVars>>

(* fs.access of the order file has settled.  A file that exists is read    *)
(* next; without one the order is the sorted names, written if not empty.  *)
loadPlugins_access ==
    /\ lp.pc = "access"
    /\ IF orderFile.exists
       THEN /\ lp' = [lp EXCEPT !.pc = "readOrder"]
            /\ UNCHANGED <<managerVars, fsVars, fsEdits, nLoads, cfgVars, ppVars>>
       ELSE LET finalOrder ==
                    ReconcileOrder(NoOrderFile,
                                   DOMAIN lp.discoveredPreprocessors)
            IN IF Len(finalOrder) > 0
               THEN /\ lp' = [lp EXCEPT !.pc = "writeOrder",
                                        !.finalOrder = finalOrder]
                    /\ UNCHANGED <<managerVars, fsVars, fsEdits, nLoads,
                                   cfgVars, ppVars>>
               ELSE FinishLoad(finalOrder) /\ UNCHANGED orderFile

(* The same step writing the reconciled order back to the file. *)
loadPlugins_readOrder_rewrites ==
    /\ lp.pc = "readOrder"
    /\ FinishLoad(ReconcileOrder(orderFile, DOMAIN lp.discoveredPreprocessors))
    /\ orderFile' = OrderArray(preprocessorOrder')

(* The existing order file has been read: no write follows. *)
loadPlugins_readOrder ==
    /\ lp.pc = "readOrder"
    /\ FinishLoad(ReconcileOrder(orderFile, DOMAIN lp.discoveredPreprocessors))
    /\ UNCHANGED orderFile

(* The order file, absent at the access, has been written. *)
loadPlugins_writeOrder ==
    /\ lp.pc = "writeOrder"
    /\ orderFile' = OrderArray(lp.finalOrder)
    /\ FinishLoad(lp.finalOrder)

(* fs.writeFile of the order file rejected: the error is logged and the    *)
(* load goes on with the same order.                                       *)
loadPlugins_writeOrderFails ==
    /\ lp.pc = "writeOrder"
    /\ UNCHANGED orderFile
    /\ FinishLoad(lp.finalOrder)

-----------------------------------------------------------------------------
(* The distributed registry: tools and placeholders of remote servers.     *)

ToolBatches == { <<ToolManifest("A")>>, <<ToolManifest("T")>>,
                 <<ToolManifest("T"), ToolManifest("A")>> }

(* The loop of registerDistributedTools over the announced manifests. *)
RECURSIVE RegisterTools(_, _, _)
RegisterTools(pl, serverId, tools) ==
    IF tools = <<>> THEN pl
    ELSE LET toolManifest == Head(tools)
         IN IF toolManifest.entryPoint = NoEntry
            THEN RegisterTools(pl, serverId, Tail(tools))
            ELSE IF Has(pl, toolManifest.name)
            THEN RegisterTools(pl, serverId, Tail(tools))
            ELSE RegisterTools(
                     Put(pl, toolManifest.name,
                         DistributedEntry(toolManifest, serverId)),
                     serverId, Tail(tools))

registerDistributedTools(serverId, tools) ==
    /\ plugins' = RegisterTools(plugins, serverId, tools)
    /\ individualPluginDescriptions' = buildVCPDescription(plugins')
    /\ UNCHANGED <<staticPlaceholderValues, scheduledJobs,
                   messagePreprocessors, preprocessorOrder, serviceModules,
                   fsVars, lp, fsEdits, nLoads, cfgVars, ppVars>>

(* The deletion that does not look at the owner of a distributed entry. *)
WithoutServer_anyOwner(pl, serverId) ==
    [n \in {x \in DOMAIN pl : ~pl[x].isDistributed} |-> pl[n]]

(* The entries left once every distributed entry of serverId is deleted. *)
WithoutServer(pl, serverId) ==
    [n \in {x \in DOMAIN pl :
               ~(pl[x].isDistributed /\ pl[x].serverId = serverId)} |-> pl[n]]

(* The key clearDistributedStaticPlaceholders looks for. *)
DistributedKey(placeholder, serverId) == placeholder \o "@@" \o serverId

(* clearDistributedStaticPlaceholders: a placeholder is removed when the   *)
(* table also holds the key <placeholder>@@<serverId>.                     *)
clearDistributedStaticPlaceholders(values, serverId) ==
    LET placeholdersToRemove ==
            {placeholder \in DOMAIN values :
                Has(values, DistributedKey(placeholder, serverId))}
    IN [k \in DOMAIN values \ placeholdersToRemove |-> values[k]]

unregisterAllDistributedTools(serverId) ==
    /\ plugins' = WithoutServer(plugins, serverId)
    /\ individualPluginDescriptions' =
          IF DOMAIN plugins' # DOMAIN plugins
          THEN buildVCPDescription(plugins')
          ELSE individualPluginDescriptions
    /\ staticPlaceholderValues' =
          clearDistributedStaticPlaceholders(staticPlaceholderValues, serverId)
    /\ UNCHANGED <<scheduledJobs, messagePreprocessors, preprocessorOrder,
                   serviceModules, fsVars, lp, fsEdits, nLoads, cfgVars, ppVars>>

PlaceholderKeys == {"PH1", "PH2"}
PlaceholderText(serverId) == "text of " \o serverId
(* The key/value objects a server pushes: its text under one or both keys, *)
(* or under a key together with that key's <key>@@<serverId> form.         *)
PlaceholderPushes(serverId) ==
    { [k \in ks |-> PlaceholderText(serverId)] :
        ks \in (SUBSET PlaceholderKeys) \ {{}} }
    \cup { [k \in {"PH1", DistributedKey("PH1", serverId)} |->
              PlaceholderText(serverId)] }

updateDistributedStaticPlaceholders(serverId, placeholders) ==
    /\ staticPlaceholderValues' =
          [k \in DOMAIN staticPlaceholderValues \cup DOMAIN placeholders |->
              IF k \in DOMAIN placeholders THEN placeholders[k]
              ELSE staticPlaceholderValues[k]]
    /\ UNCHANGED <<plugins, scheduledJobs, messagePreprocessors,
                   preprocessorOrder, serviceModules,
                   individualPluginDescriptions, fsVars, lp, fsEdits, nLoads,
                   cfgVars, ppVars>>

-----------------------------------------------------------------------------
(* Changes of the plugin directory and of the order file made from outside *)
(* the process, which the next load reads.                                 *)

EditManifests == { DiskManifest("D", "messagePreprocessor"),
                   DiskManifest("A", "synchronous") }
EditEnvValues == { <<"2">>, <<"x">> }
EditOrders == { <<"B", "A", "C">>, <<"D", "A">> }

FsChanged ==
    /\ fsEdits < MaxFsEdits
    /\ fsEdits' = fsEdits + 1
    /\ UNCHANGED <<managerVars, lp, nLoads, cfgVars, ppVars>>

writeManifest(folder, manifest) ==
    /\ disk[folder].manifest # manifest
    /\ disk' = [disk EXCEPT ![folder].manifest = manifest]
    /\ UNCHANGED orderFile
    /\ FsChanged

unlinkManifest(folder) ==
    /\ disk[folder].manifest # NoManifest
    /\ disk' = [disk EXCEPT ![folder].manifest = NoManifest]
    /\ UNCHANGED orderFile
    /\ FsChanged

writeConfigEnv(folder, value) ==
    /\ disk[folder].manifest # NoManifest
    /\ disk[folder].env # EnvFile(value)
    /\ disk' = [disk EXCEPT ![folder].env = EnvFile(value)]
    /\ UNCHANGED orderFile
    /\ FsChanged

writeOrderFile(names) ==
    /\ orderFile # OrderArray(names)
    /\ orderFile' = OrderArray(names)
    /\ UNCHANGED disk
    /\ FsChanged

unlinkOrderFile ==
    /\ orderFile.exists
    /\ orderFile' = NoOrderFile
    /\ UNCHANGED disk
    /\ FsChanged

-----------------------------------------------------------------------------
(* executeMessagePreprocessor.  What processMessages does is the module's  *)
(* own business: it returns a new array, throws, or returns a promise that *)
(* rejects.                                                                *)

MaxMessages == 3     \* messages a request may grow to

NoModule == [none |-> TRUE]
ModuleOutcomes == {"appends", "throws", "rejects"}
Returned(value) == [threw |-> FALSE, value |-> value]
Thrown == [threw |-> TRUE, value |-> <<>>]

(* The same function without its try/catch around processMessages. *)
executeMessagePreprocessor_uncaught(pluginName, messages, outcome) ==
    LET processorModule == IF Has(messagePreprocessors, pluginName)
                           THEN messagePreprocessors[pluginName]
                           ELSE NoModule
        pluginManifest == getPlugin(pluginName)
    IN IF processorModule = NoModule \/ pluginManifest = NoPlugin
       THEN Returned(messages)
       ELSE IF ~processorModule.processMessages
       THEN Returned(messages)
       ELSE IF outcome = "appends"
       THEN Returned(Append(messages, pluginName))
       ELSE Thrown

(* What the call settles to, for the outcome of the module's               *)
(* processMessages should it be called.                                    *)
executeMessagePreprocessor(pluginName, messages, outcome) ==
    LET processorModule == IF Has(messagePreprocessors, pluginName)
                           THEN messagePreprocessors[pluginName]
                           ELSE NoModule
        pluginManifest == getPlugin(pluginName)
    IN IF processorModule = NoModule \/ pluginManifest = NoPlugin
       THEN Returned(messages)
       ELSE IF ~processorModule.processMessages
       THEN Returned(messages)
       ELSE IF outcome = "appends"
       THEN Returned(Append(messages, pluginName))
       ELSE Returned(messages)

NoCall == [called |-> FALSE, pluginName |-> "", outcome |-> "",
           input |-> <<>>, threw |-> FALSE, output |-> <<>>]

(* One step of a request's chain: the array the request carries goes       *)
(* through the named preprocessor and what comes back is carried on.       *)
PreprocessorStep(pluginName, outcome) ==
    /\ Len(ppMessages) < MaxMessages
    /\ LET result == executeMessagePreprocessor(pluginName, ppMessages, outcome)
       IN /\ ppLast' = [called |-> TRUE, pluginName |-> pluginName,
                        outcome |-> outcome, input |-> ppMessages,
                        threw |-> result.threw, output |-> result.value]
          /\ ppMessages' = IF result.threw THEN ppMessages ELSE result.value
    /\ UNCHANGED <<managerVars, fsVars, loadVars, historyVars, cfgVars,
                   watchVars, staticVars, execVars>>

-----------------------------------------------------------------------------
(* Specifications.                                                         *)

InitialDisks ==
    { [f \in Range(Folders) |->
          CASE f = "d1" -> Folder(DiskManifest("A", "messagePreprocessor"),
                                  EnvFile(<<"1">>))
            [] f = "d2" -> Folder(DiskManifest("B", "messagePreprocessor"),
                                  NoEnvFile)
            [] OTHER -> Folder(DiskManifest("D", "messagePreprocessor"),
                               NoEnvFile)],
      [f \in Range(Folders) |->
          CASE f = "d1" -> Folder(DiskManifest("A", "messagePreprocessor"),
                                  EnvFile(<<"1">>))
            [] f = "d2" -> Folder(DiskManifest("A", "synchronous"), NoEnvFile)
            [] OTHER -> Folder(BrokenManifest("B"), NoEnvFile)] }
InitialOrderFiles == { NoOrderFile, OrderArray(<<"B", "A", "C">>), BadOrderFile }

NoEviction == [serverId |-> NoServer, names |-> {}]

DebounceMs == 500                   \* the delay of the reload timer
NoTimer == 0                        \* this.reloadTimeout = null
NoReloads == [watcher |-> 0, admin |-> 0]
NoReload == [caller |-> "none", ok |-> FALSE, signals |-> 0]
NoFire == [fired |-> FALSE, events |-> 0, since |-> 0]
NotCalled == [pc |-> "idle"]
NoToolCall == [pc |-> "idle"]
NotStarted == [pc |-> "idle"]

(* The reload control as the constructor leaves it: no reload in progress, *)
(* no timer armed, no socket server set.                                   *)
NoReloadPending ==
    /\ isReloading = FALSE
    /\ reloadTimeout = NoTimer
    /\ timers = EmptyMap
    /\ webSocketServer = FALSE
    /\ reloads = NoReloads
    /\ sinceEvent = DebounceMs
    /\ nEvents = 0
    /\ nAdminCalls = 0
    /\ pendingEvents = 0
    /\ orderStale = FALSE
    /\ manifestStale = FALSE
    /\ lastReload = NoReload
    /\ lastFire = NoFire

(* No static refresh and no plugin call has been started. *)
NoChildRunning ==
    /\ refreshing = <<>>
    /\ exec = NotCalled
    /\ call = NoToolCall
    /\ stamp = NotStarted
    /\ cmd = NotStarted
    /\ chat = NotStarted
    /\ shell = NotStarted
    /\ fetcher = NotStarted
    /\ divider = NotStarted
    /\ launcher = NotStarted

(* The manager as its constructor leaves it. *)
Constructed ==
    /\ plugins = EmptyMap
    /\ staticPlaceholderValues = EmptyMap
    /\ scheduledJobs = EmptyMap
    /\ messagePreprocessors = EmptyMap
    /\ preprocessorOrder = <<>>
    /\ serviceModules = EmptyMap
    /\ individualPluginDescriptions = {}
    /\ lp = Idle
    /\ fsEdits = 0
    /\ nLoads = 0
    /\ lastLoad = NoLoad
    /\ fsDirty = FALSE
    /\ evicted = NoEviction
    /\ NoReloadPending
    /\ NoChildRunning

CfgUnused ==
    /\ cfgManifest = [configSchema |-> EmptyMap,
                      pluginSpecificEnvConfig |-> EmptyMap]
    /\ cfgEnv = EmptyMap
    /\ cfgOut = NotRun

PpUnused ==
    /\ ppMessages = <<>>
    /\ ppLast = NoCall

(* A step that leaves the history as it was. *)
Quiet ==
    /\ evicted' = NoEviction
    /\ UNCHANGED <<lastLoad, fsDirty, watchVars, staticVars, execVars>>

(* A step of unregisterAllDistributedTools(serverId), remembered. *)
Evicting(serverId) ==
    /\ evicted' = [serverId |-> serverId,
                   names |-> {n \in DOMAIN plugins :
                                 /\ plugins[n].isDistributed
                                 /\ plugins[n].serverId = serverId}]
    /\ UNCHANGED <<lastLoad, fsDirty, watchVars, staticVars, execVars>>

(* The manifest map and the placeholder table under loads and the calls of *)
(* the distributed servers, in any interleaving.                           *)
Init ==
    /\ Constructed
    /\ CfgUnused
    /\ PpUnused
    /\ disk \in InitialDisks
    /\ orderFile = NoOrderFile

Next ==
    \/ loadPlugins_begin /\ Quiet
    \/ loadPlugins_readdir /\ Quiet
    \/ loadPlugins_readdirFails /\ Quiet
    \/ loadPlugins_readManifest /\ Quiet
    \/ loadPlugins_readConfigEnv /\ Quiet
    \/ loadPlugins_access /\ Quiet
    \/ loadPlugins_readOrder /\ Quiet
    \/ loadPlugins_writeOrder /\ Quiet
    \/ loadPlugins_writeOrderFails /\ Quiet
    \/ \E serverId \in Servers, tools \in ToolBatches :
          registerDistributedTools(serverId, tools) /\ Quiet
    \/ \E serverId \in Servers :
          unregisterAllDistributedTools(serverId) /\ Evicting(serverId)
    \/ \E serverId \in Servers :
          \E placeholders \in PlaceholderPushes(serverId) :
             updateDistributedStaticPlaceholders(serverId, placeholders)
                /\ Quiet

Spec == Init /\ [][Next]_vars

(* Loads one after the other, the filesystem changing only between them;   *)
(* each completed load is remembered for the next to be compared with.     *)
Remembered ==
    /\ lastLoad' = IF nLoads' = nLoads THEN lastLoad
                   ELSE Snapshot(lp.pc # "readdir", plugins',
                                 preprocessorOrder', messagePreprocessors',
                                 scheduledJobs')
    /\ fsDirty' = IF nLoads' = nLoads THEN fsDirty ELSE FALSE
    /\ UNCHANGED <<evicted, watchVars, staticVars, execVars>>

Edited ==
    /\ lp.pc = "idle"
    /\ fsDirty' = TRUE
    /\ UNCHANGED <<lastLoad, evicted, watchVars, staticVars, execVars>>

InitReload ==
    /\ Constructed
    /\ CfgUnused
    /\ PpUnused
    /\ disk \in InitialDisks
    /\ orderFile \in InitialOrderFiles

NextReload ==
    \/ loadPlugins_begin /\ Remembered
    \/ loadPlugins_readdir /\ Remembered
    \/ loadPlugins_readdirFails /\ Remembered
    \/ loadPlugins_readManifest /\ Remembered
    \/ loadPlugins_readConfigEnv /\ Remembered
    \/ loadPlugins_access /\ Remembered
    \/ loadPlugins_readOrder /\ Remembered
    \/ loadPlugins_writeOrder /\ Remembered
    \/ loadPlugins_writeOrderFails /\ Remembered
    \/ \E folder \in Range(Folders), manifest \in EditManifests :
          writeManifest(folder, manifest) /\ Edited
    \/ \E folder \in Range(Folders) : unlinkManifest(folder) /\ Edited
    \/ \E folder \in Range(Folders), value \in EditEnvValues :
          writeConfigEnv(folder, value) /\ Edited
    \/ \E names \in EditOrders : writeOrderFile(names) /\ Edited
    \/ unlinkOrderFile /\ Edited

SpecReload == InitReload /\ [][NextReload]_vars

(* _getPluginConfig applied to a drawn manifest and environment. *)
InitCfg ==
    /\ Constructed
    /\ PpUnused
    /\ disk \in {CHOOSE d \in InitialDisks : TRUE}
    /\ orderFile = NoOrderFile
    /\ cfgManifest \in CfgManifests
    /\ cfgEnv \in CfgEnvs
    /\ cfgOut = NotRun

ResolveConfig ==
    /\ ~cfgOut.done
    /\ cfgOut' = [done |-> TRUE, config |-> getPluginConfig(cfgManifest, cfgEnv)]
    /\ UNCHANGED <<managerVars, fsVars, loadVars, historyVars, ppVars,
                   cfgManifest, cfgEnv, watchVars, staticVars, execVars>>

NextCfg == ResolveConfig

SpecCfg == InitCfg /\ [][NextCfg]_vars

(* A request's chain of preprocessor steps over a drawn module map and     *)
(* manifest map.                                                           *)
PreprocessorNames == {"A", "B"}
PreprocessorEntry(name) ==
    LocalEntry(DiskManifest(name, "messagePreprocessor"), name, EmptyMap)
PreprocessorModules(name) ==
    { [path |-> name, processMessages |-> f] : f \in BOOLEAN }

InitPre ==
    /\ staticPlaceholderValues = EmptyMap
    /\ scheduledJobs = EmptyMap
    /\ serviceModules = EmptyMap
    /\ individualPluginDescriptions = {}
    /\ lp = Idle
    /\ fsEdits = 0
    /\ nLoads = 0
    /\ lastLoad = NoLoad
    /\ fsDirty = FALSE
    /\ evicted = NoEviction
    /\ NoReloadPending
    /\ NoChildRunning
    /\ CfgUnused
    /\ disk \in {CHOOSE d \in InitialDisks : TRUE}
    /\ orderFile = NoOrderFile
    /\ \E known \in SUBSET PreprocessorNames :
          plugins = [n \in known |-> PreprocessorEntry(n)]
    /\ \E registered \in SUBSET PreprocessorNames :
          messagePreprocessors \in
              {f \in [registered -> UNION {PreprocessorModules(n) :
                                              n \in PreprocessorNames}] :
                  \A n \in registered : f[n].path = n}
    /\ preprocessorOrder = SortNames(DOMAIN messagePreprocessors)
    /\ ppMessages = <<"user">>
    /\ ppLast = NoCall

NextPre ==
    \E pluginName \in PreprocessorNames, outcome \in ModuleOutcomes :
       PreprocessorStep(pluginName, outcome)

SpecPre == InitPre /\ [][NextPre]_vars

-----------------------------------------------------------------------------
(* Hot reload: the file watcher with its debounce timer, and the           *)
(* administrative reload.  A run of loadPlugins is taken here from its     *)
(* call to its settling; it settles by resolving whether or not the scan   *)
(* of the plugin directory succeeded (the catch of loadPlugins).           *)

MaxEvents == 3       \* watcher events delivered in one behaviour
MaxAdminCalls == 2   \* calls of hotReloadPluginsAndOrder in one behaviour

Delays == {100, 400}                \* time passing between steps, in ms
EventTypes == {"add", "change", "unlink"}

clearTimeout(live, handle) == [h \in DOMAIN live \ {handle} |-> live[h]]

(* The part of loadPlugins that runs before its first await. *)
loadPlugins_called ==
    /\ plugins' = KeptEntries(plugins)
    /\ messagePreprocessors' = EmptyMap
    /\ staticPlaceholderValues' = EmptyMap
    /\ serviceModules' = EmptyMap
    /\ orderStale' = FALSE
    /\ manifestStale' = FALSE
    /\ UNCHANGED <<scheduledJobs, preprocessorOrder,
                   individualPluginDescriptions, fsVars, loadVars,
                   historyVars, cfgVars, ppVars, staticVars, execVars>>

WatchOnly ==
    UNCHANGED <<managerVars, fsVars, loadVars, historyVars, cfgVars, ppVars,
                staticVars, execVars>>

(* The handler that arms a timer without cancelling the one armed before. *)
handlePluginManifestChange_noCancel(eventType) ==
    /\ nEvents < MaxEvents
    /\ nEvents' = nEvents + 1
    /\ manifestStale' = TRUE
    /\ IF isReloading
       THEN UNCHANGED <<reloadTimeout, timers, sinceEvent, pendingEvents>>
       ELSE /\ timers' = Put(timers, nEvents + 1, DebounceMs)
            /\ reloadTimeout' = nEvents + 1
            /\ sinceEvent' = 0
            /\ pendingEvents' = pendingEvents + 1
    /\ UNCHANGED <<isReloading, webSocketServer, reloads, nAdminCalls,
                   orderStale, lastReload, lastFire>>
    /\ WatchOnly

(* handlePluginManifestChange: dropped while isReloading; otherwise the    *)
(* timer armed before is cleared and a new one is armed for DebounceMs.    *)
handlePluginManifestChange(eventType) ==
    /\ nEvents < MaxEvents
    /\ nEvents' = nEvents + 1
    /\ manifestStale' = TRUE
    /\ IF isReloading
       THEN UNCHANGED <<reloadTimeout, timers, sinceEvent, pendingEvents>>
       ELSE /\ timers' = Put(clearTimeout(timers, reloadTimeout),
                             nEvents + 1, DebounceMs)
            /\ reloadTimeout' = nEvents + 1
            /\ sinceEvent' = 0
            /\ pendingEvents' = pendingEvents + 1
    /\ UNCHANGED <<isReloading, webSocketServer, reloads, nAdminCalls,
                   orderStale, lastReload, lastFire>>
    /\ WatchOnly

(* A timer has run out: its callback sets isReloading and calls            *)
(* loadPlugins.                                                            *)
reloadTimeout_fires(handle) ==
    /\ Has(timers, handle)
    /\ timers[handle] = 0
    /\ timers' = Remove(timers, handle)
    /\ isReloading' = TRUE
    /\ reloads' = [reloads EXCEPT !.watcher = @ + 1]
    /\ lastFire' = [fired |-> TRUE, events |-> pendingEvents,
                    since |-> sinceEvent]
    /\ pendingEvents' = 0
    /\ loadPlugins_called
    /\ UNCHANGED <<reloadTimeout, webSocketServer, sinceEvent, nEvents,
                   nAdminCalls, lastReload>>

(* The loadPlugins awaited by the timer's callback has settled: the        *)
(* plugins-reloaded message is broadcast if a socket server is set, and    *)
(* isReloading is reset.                                                   *)
reloadTimeout_settles(ok) ==
    /\ reloads.watcher > 0
    /\ reloads' = [reloads EXCEPT !.watcher = @ - 1]
    /\ lastReload' = [caller |-> "watcher", ok |-> ok,
                      signals |-> IF webSocketServer THEN 1 ELSE 0]
    /\ isReloading' = FALSE
    /\ UNCHANGED <<reloadTimeout, timers, webSocketServer, sinceEvent,
                   nEvents, nAdminCalls, pendingEvents, orderStale,
                   manifestStale, lastFire>>
    /\ WatchOnly

(* hotReloadPluginsAndOrder is called: it calls loadPlugins. *)
hotReloadPluginsAndOrder ==
    /\ nAdminCalls < MaxAdminCalls
    /\ nAdminCalls' = nAdminCalls + 1
    /\ reloads' = [reloads EXCEPT !.admin = @ + 1]
    /\ loadPlugins_called
    /\ UNCHANGED <<isReloading, reloadTimeout, timers, webSocketServer,
                   sinceEvent, nEvents, pendingEvents, lastReload, lastFire>>

(* The loadPlugins it awaited has settled: the order is returned. *)
hotReloadPluginsAndOrder_settles(ok) ==
    /\ reloads.admin > 0
    /\ reloads' = [reloads EXCEPT !.admin = @ - 1]
    /\ lastReload' = [caller |-> "admin", ok |-> ok, signals |-> 0]
    /\ UNCHANGED <<isReloading, reloadTimeout, timers, webSocketServer,
                   sinceEvent, nEvents, nAdminCalls, pendingEvents,
                   orderStale, manifestStale, lastFire>>
    /\ WatchOnly

setWebSocketServer ==
    /\ ~webSocketServer
    /\ webSocketServer' = TRUE
    /\ UNCHANGED <<isReloading, reloadTimeout, timers, reloads, sinceEvent,
                   nEvents, nAdminCalls, pendingEvents, orderStale,
                   manifestStale, lastReload, lastFire>>
    /\ WatchOnly

Min(a, b) == IF a < b THEN a ELSE b

(* delay milliseconds pass; no live timer is overrun. *)
Advance(delay) ==
    /\ timers # EmptyMap \/ sinceEvent < DebounceMs
    /\ \A h \in DOMAIN timers : timers[h] >= delay
    /\ timers' = [h \in DOMAIN timers |-> timers[h] - delay]
    /\ sinceEvent' = Min(sinceEvent + delay, DebounceMs)
    /\ UNCHANGED <<isReloading, reloadTimeout, webSocketServer, reloads,
                   nEvents, nAdminCalls, pendingEvents, orderStale,
                   manifestStale, lastReload, lastFire>>
    /\ WatchOnly

(* preprocessor_order.json is not among the watched paths: a save of it    *)
(* calls no handler.                                                       *)
OrderSaved ==
    /\ orderStale' = TRUE
    /\ UNCHANGED <<isReloading, reloadTimeout, timers, webSocketServer,
                   reloads, sinceEvent, nEvents, nAdminCalls, pendingEvents,
                   manifestStale, lastReload, lastFire, historyVars,
                   staticVars, execVars>>

InitWatch ==
    /\ Constructed
    /\ CfgUnused
    /\ PpUnused
    /\ disk \in {CHOOSE d \in InitialDisks : TRUE}
    /\ orderFile \in {NoOrderFile, OrderArray(<<"B", "A", "C">>)}

TimePasses == \E delay \in Delays : Advance(delay)
TimerFires == \E handle \in DOMAIN timers : reloadTimeout_fires(handle)
ReloadSettles ==
    \E ok \in BOOLEAN :
       reloadTimeout_settles(ok) \/ hotReloadPluginsAndOrder_settles(ok)

NextWatch ==
    \/ \E eventType \in EventTypes : handlePluginManifestChange(eventType)
    \/ \E handle \in DOMAIN timers : reloadTimeout_fires(handle)
    \/ \E ok \in BOOLEAN : reloadTimeout_settles(ok)
    \/ hotReloadPluginsAndOrder
    \/ \E ok \in BOOLEAN : hotReloadPluginsAndOrder_settles(ok)
    \/ setWebSocketServer
    \/ \E delay \in Delays : Advance(delay)
    \/ \E names \in EditOrders : writeOrderFile(names) /\ OrderSaved

(* Timers run out and fire, and a load that was started settles. *)
SpecWatch ==
    /\ InitWatch
    /\ [][NextWatch]_vars
    /\ WF_vars(TimePasses)
    /\ WF_vars(TimerFires)
    /\ WF_vars(ReloadSettles)

-----------------------------------------------------------------------------
(* Static plugins: the placeholders they declare, their first refresh and  *)
(* their scheduled refreshes.  A refresh runs the plugin's command as a    *)
(* child process and settles with its trimmed output or with a failure.    *)

MaxRefreshes == 3    \* runs of _updateStaticPluginValue in one behaviour

StaticManifest(name, cron, placeholders) ==
    [DiskManifest(name, "static") EXCEPT
        !.refreshIntervalCron = cron,
        !.systemPromptPlaceholders = placeholders]

LoadingText(displayName) == "[" \o displayName \o " loading... ]"
ErrorText(name, message) == "[Error updating " \o name \o ": " \o message \o "...]"
UnavailableText(name) == "[" \o name \o " data currently unavailable]"

(* What a run of the command settles to: resolved with the trimmed stdout  *)
(* (possibly empty) or rejected with an error.                             *)
Resolved(output) == [failed |-> FALSE, output |-> output, message |-> ""]
Rejected(message) == [failed |-> TRUE, output |-> "", message |-> message]
NoOutcome == [failed |-> FALSE, output |-> "", message |-> "pending"]
CommandOutcomes ==
    { Resolved("v1"), Resolved("[Error] upstream"), Resolved(""),
      Rejected("timed out"), Rejected("exited with code 1") }

StaticNames == {"W", "V", "X"}
(* currentValue.startsWith("[Error"), over the texts of the model. *)
StartsWithError(text) ==
    text \in {"[Error] upstream"}
             \cup { ErrorText(n, o.message) :
                       n \in StaticNames, o \in CommandOutcomes }

(* The placeholder loop of _updateStaticPluginValue that tells an error    *)
(* sentinel from other text by comparing with the sentinels themselves.    *)
UpdatedValues_sentinelOnly(values, plugin, outcome) ==
    [k \in DOMAIN values \cup plugin.systemPromptPlaceholders |->
        IF k \notin plugin.systemPromptPlaceholders THEN values[k]
        ELSE IF ~outcome.failed /\ outcome.output # "" THEN outcome.output
        ELSE IF outcome.failed
        THEN IF ~Has(values, k) \/ values[k] = ""
                \/ values[k] \in { ErrorText(n, o.message) :
                                      n \in StaticNames, o \in CommandOutcomes }
             THEN ErrorText(plugin.name, outcome.message)
             ELSE values[k]
        ELSE IF ~Has(values, k) THEN UnavailableText(plugin.name)
        ELSE values[k]]

(* The placeholder loop of _updateStaticPluginValue. *)
UpdatedValues(values, plugin, outcome) ==
    [k \in DOMAIN values \cup plugin.systemPromptPlaceholders |->
        IF k \notin plugin.systemPromptPlaceholders THEN values[k]
        ELSE IF ~outcome.failed /\ outcome.output # "" THEN outcome.output
        ELSE IF outcome.failed
        THEN IF ~Has(values, k) \/ values[k] = ""
                \/ StartsWithError(values[k])
             THEN ErrorText(plugin.name, outcome.message)
             ELSE values[k]
        ELSE IF ~Has(values, k) THEN UnavailableText(plugin.name)
        ELSE values[k]]

Refresh(plugin, origin) ==
    [plugin |-> plugin, origin |-> origin, done |-> FALSE,
     outcome |-> NoOutcome]

Running(name) ==
    {i \in DOMAIN refreshing :
        ~refreshing[i].done /\ refreshing[i].plugin.name = name}

StaticPlugins(pl) == {n \in DOMAIN pl : pl[n].pluginType = "static"}

(* The refreshes initializeStaticPlugins starts, one for each static       *)
(* plugin, in the order of their names.                                    *)
RECURSIVE InitialRefreshes(_, _)
InitialRefreshes(pl, names) ==
    IF names = {} THEN <<>>
    ELSE LET n == CHOOSE x \in names : \A y \in names : CodeUnit(x) <= CodeUnit(y)
         IN <<Refresh(pl[n], "initial")>> \o InitialRefreshes(pl, names \ {n})

(* initializeStaticPlugins: every static plugin has its declared           *)
(* placeholders set to the loading text, its first refresh started, and,   *)
(* when it declares refreshIntervalCron, its job (re)scheduled.            *)
initializeStaticPlugins ==
    /\ lp.pc = "idle"
    /\ Len(refreshing) + Cardinality(StaticPlugins(plugins)) <= MaxRefreshes
    /\ LET static == StaticPlugins(plugins)
           seeded == UNION {plugins[n].systemPromptPlaceholders : n \in static}
           owner(k) == CHOOSE n \in static :
                          /\ k \in plugins[n].systemPromptPlaceholders
                          /\ \A m \in static :
                                k \in plugins[m].systemPromptPlaceholders
                                   => CodeUnit(m) <= CodeUnit(n)
       IN /\ static # {}
          /\ staticPlaceholderValues' =
                [k \in DOMAIN staticPlaceholderValues \cup seeded |->
                    IF k \in seeded
                    THEN LoadingText(plugins[owner(k)].displayName)
                    ELSE staticPlaceholderValues[k]]
          /\ refreshing' = refreshing \o InitialRefreshes(plugins, static)
          /\ scheduledJobs' =
                [n \in DOMAIN scheduledJobs
                         \cup {x \in static :
                                  plugins[x].refreshIntervalCron # NoCron} |->
                    IF n \in static /\ plugins[n].refreshIntervalCron # NoCron
                    THEN plugins[n] ELSE scheduledJobs[n]]
    /\ UNCHANGED <<plugins, messagePreprocessors, preprocessorOrder,
                   serviceModules, individualPluginDescriptions, fsVars,
                   loadVars, historyVars, cfgVars, ppVars, watchVars,
                   execVars>>

(* The callback of a scheduled job: it starts a refresh of the job's       *)
(* plugin.                                                                 *)
scheduledJob_fires(name) ==
    /\ Has(scheduledJobs, name)
    /\ Len(refreshing) < MaxRefreshes
    /\ refreshing' = Append(refreshing, Refresh(scheduledJobs[name], "cron"))
    /\ UNCHANGED <<managerVars, fsVars, loadVars, historyVars, cfgVars,
                   ppVars, watchVars, execVars>>

(* The command of a refresh has settled: the placeholder loop runs.  The   *)
(* record of the refresh keeps what the command settled to until the next  *)
(* refresh settles.                                                        *)
updateStaticPluginValue_settles(i, outcome) ==
    /\ i \in DOMAIN refreshing
    /\ ~refreshing[i].done
    /\ staticPlaceholderValues' =
          UpdatedValues(staticPlaceholderValues, refreshing[i].plugin, outcome)
    /\ refreshing' = [j \in DOMAIN refreshing |->
                         IF j = i
                         THEN [refreshing[j] EXCEPT !.done = TRUE,
                                                    !.outcome = outcome]
                         ELSE [refreshing[j] EXCEPT !.outcome = NoOutcome]]
    /\ UNCHANGED <<plugins, scheduledJobs, messagePreprocessors,
                   preprocessorOrder, serviceModules,
                   individualPluginDescriptions, fsVars, loadVars,
                   historyVars, cfgVars, ppVars, watchVars, execVars>>

StaticDisk ==
    [f \in Range(Folders) |->
        CASE f = "d1" -> Folder(StaticManifest("W", "cron", {"PHW"}), NoEnvFile)
          [] f = "d2" -> Folder(StaticManifest("V", NoCron, {"PHV"}), NoEnvFile)
          [] OTHER -> Folder(NoManifest, NoEnvFile)]
StaticEdits == { StaticManifest("X", "cron", {"PHX"}) }

InitStatic ==
    /\ Constructed
    /\ CfgUnused
    /\ PpUnused
    /\ disk = StaticDisk
    /\ orderFile = NoOrderFile

NextStatic ==
    \/ loadPlugins_begin /\ Remembered
    \/ loadPlugins_readdir /\ Remembered
    \/ loadPlugins_readdirFails /\ Remembered
    \/ loadPlugins_readManifest /\ Remembered
    \/ loadPlugins_readConfigEnv /\ Remembered
    \/ loadPlugins_access /\ Remembered
    \/ initializeStaticPlugins
    \/ \E name \in StaticNames : scheduledJob_fires(name)
    \/ \E i \in 1..MaxRefreshes, outcome \in CommandOutcomes :
          updateStaticPluginValue_settles(i, outcome)
    \/ \E folder \in Range(Folders), manifest \in StaticEdits :
          writeManifest(folder, manifest) /\ Edited
    \/ \E folder \in Range(Folders) : unlinkManifest(folder) /\ Edited

SpecStatic == InitStatic /\ [][NextStatic]_vars

-----------------------------------------------------------------------------
(* executePlugin: one call, from the spawn of the child process to the     *)
(* child's exit.  The caller's promise settles once: a resolve or reject   *)
(* of a settled promise has no effect; calls counts the resolve and reject *)
(* calls the code made.                                                    *)

MaxChunks == 2       \* 'data' events of the child's stdout in one call

PluginTypes == {"synchronous", "asynchronous"}
ExitCodes == {"zero", "nonzero"}

(* The child's output is a sequence of tokens: the braces of JSON objects, *)
(* white space, the top-level member "status":"success" (S) or             *)
(* "status":"error" (E) and text that is not JSON (x).  A chunk is what    *)
(* one 'data' event delivers.                                              *)
Chunks == { <<"{", "S", "}">>,                  \* {"status":"success"}
            <<"{", "E", "}">>,                  \* {"status":"error"}
            <<"{", "S">>, <<"}">>,              \* an object in two chunks
            <<"{", "S", "{", "}", " ", "}">>,   \* a nested object, then a blank
            <<"{", "S", "{", "}", "}">>,        \* a nested object
            <<"x", " ">>,                       \* a line of text
            <<" ">> }                           \* a newline

Highest(S) == CHOOSE x \in S : \A y \in S : y <= x
Lowest(S) == CHOOSE x \in S : \A y \in S : x <= y

Depth(tokens, n) ==
    Cardinality({i \in 1..n : tokens[i] = "{"})
       - Cardinality({i \in 1..n : tokens[i] = "}"})

(* String.prototype.trim *)
trim(tokens) ==
    LET inked == {i \in DOMAIN tokens : tokens[i] # " "}
    IN IF inked = {} THEN <<>> ELSE SubSeq(tokens, Lowest(inked), Highest(inked))

(* JSON.parse and the test of the status member: "throws" when the text is *)
(* not one JSON object, else the object's status, "other" without one.     *)
JSONparse(text) ==
    LET t == trim(text)
        members == {n \in DOMAIN t : t[n] \in {"S", "E"} /\ Depth(t, n) = 1}
    IN IF \/ Len(t) < 2
          \/ t[1] # "{"
          \/ \E n \in DOMAIN t : t[n] = "x"
          \/ \E n \in 1..(Len(t) - 1) : Depth(t, n) < 1
          \/ Depth(t, Len(t)) # 0
       THEN "throws"
       ELSE IF members = {} THEN "other"
       ELSE IF t[Highest(members)] = "S" THEN "success" ELSE "error"

(* outputBuffer.match(/(\{[\s\S]*?\})(?:\s|$)/)[1]: from the first opening *)
(* brace to the first closing brace that white space or the end of the     *)
(* buffer follows; <<>> when there is no match.                            *)
potentialJsonMatch(outputBuffer) ==
    LET opens == {i \in DOMAIN outputBuffer : outputBuffer[i] = "{"}
        ends(i) == {j \in (i + 1)..Len(outputBuffer) :
                       /\ outputBuffer[j] = "}"
                       /\ j = Len(outputBuffer) \/ outputBuffer[j + 1] = " "}
    IN IF opens = {} \/ ends(Lowest(opens)) = {} THEN <<>>
       ELSE SubSeq(outputBuffer, Lowest(opens), Lowest(ends(Lowest(opens))))

Pending == [state |-> "pending", value |-> "none", calls |-> 0]
resolve(promise, value) ==
    IF promise.state = "pending"
    THEN [state |-> "resolved", value |-> value, calls |-> promise.calls + 1]
    ELSE [promise EXCEPT !.calls = @ + 1]
reject(promise, error) ==
    IF promise.state = "pending"
    THEN [state |-> "rejected", value |-> error, calls |-> promise.calls + 1]
    ELSE [promise EXCEPT !.calls = @ + 1]

(* The call passed its checks: the child is spawned, the timer armed and   *)
(* the input written to the child's stdin, which may throw.                *)
executePlugin(pluginType, stdinThrows) ==
    /\ exec.pc = "idle"
    /\ exec' = [pc |-> "called",
                isAsyncPlugin |-> (pluginType = "asynchronous"),
                outputBuffer |-> <<>>,
                errorOutput |-> FALSE,
                processExited |-> FALSE,
                initialResponseSent |-> FALSE,
                timeoutId |-> "armed",
                child |-> "running",
                code |-> "none",
                signal |-> "none",
                kills |-> 0,
                chunks |-> 0,
                promise |-> IF stdinThrows
                            THEN reject(Pending, "stdin write error")
                            ELSE Pending]
    /\ UNCHANGED <<managerVars, fsVars, loadVars, historyVars, cfgVars,
                   ppVars, watchVars, staticVars, call, otherVars>>

ExecOnly ==
    UNCHANGED <<managerVars, fsVars, loadVars, historyVars, cfgVars, ppVars,
                watchVars, staticVars, call, otherVars>>

(* The timer callback that kills the child whenever it has not exited. *)
timeout_fires_killsAcknowledged ==
    /\ exec.pc = "called"
    /\ exec.timeoutId = "armed"
    /\ exec' =
          IF ~exec.processExited /\ ~exec.initialResponseSent
             /\ exec.isAsyncPlugin
          THEN [exec EXCEPT !.timeoutId = "fired", !.child = "killed",
                            !.kills = @ + 1,
                            !.promise = reject(@, "initial response timed out")]
          ELSE IF ~exec.processExited
          THEN [exec EXCEPT !.timeoutId = "fired", !.child = "killed",
                            !.kills = @ + 1,
                            !.promise = reject(@, "execution timed out")]
          ELSE [exec EXCEPT !.timeoutId = "fired"]
    /\ ExecOnly

(* The timer callback. *)
timeout_fires ==
    /\ exec.pc = "called"
    /\ exec.timeoutId = "armed"
    /\ exec' =
          IF ~exec.processExited /\ ~exec.initialResponseSent
             /\ exec.isAsyncPlugin
          THEN [exec EXCEPT !.timeoutId = "fired", !.child = "killed",
                            !.kills = @ + 1,
                            !.promise = reject(@, "initial response timed out")]
          ELSE IF ~exec.processExited /\ ~exec.isAsyncPlugin
          THEN [exec EXCEPT !.timeoutId = "fired", !.child = "killed",
                            !.kills = @ + 1,
                            !.promise = reject(@, "execution timed out")]
          ELSE [exec EXCEPT !.timeoutId = "fired"]
    /\ ExecOnly

(* A 'data' event of the child's stdout. *)
stdout_data(data) ==
    /\ exec.pc = "called"
    /\ exec.child \in {"running", "killed"}
    /\ exec.chunks < MaxChunks
    /\ exec' =
          IF exec.processExited
             \/ (exec.isAsyncPlugin /\ exec.initialResponseSent)
          THEN [exec EXCEPT !.chunks = @ + 1]
          ELSE LET outputBuffer == exec.outputBuffer \o data
                   jsonString == potentialJsonMatch(outputBuffer)
               IN IF /\ jsonString # <<>>
                     /\ JSONparse(jsonString) \in {"success", "error"}
                     /\ exec.isAsyncPlugin
                  THEN [exec EXCEPT !.chunks = @ + 1,
                                    !.outputBuffer = outputBuffer,
                                    !.initialResponseSent = TRUE,
                                    !.promise =
                                       resolve(@, JSONparse(jsonString))]
                  ELSE [exec EXCEPT !.chunks = @ + 1,
                                    !.outputBuffer = outputBuffer]
    /\ ExecOnly

(* A 'data' event of the child's stderr. *)
stderr_data ==
    /\ exec.pc = "called"
    /\ exec.child \in {"running", "killed"}
    /\ ~exec.errorOutput
    /\ exec' = [exec EXCEPT !.errorOutput = TRUE]
    /\ ExecOnly

(* The 'error' handler without its test of initialResponseSent. *)
child_error_alwaysRejects ==
    /\ exec.pc = "called"
    /\ exec.child = "running"
    /\ exec' = [exec EXCEPT !.child = "failed",
                            !.processExited = TRUE,
                            !.timeoutId = IF @ = "armed" THEN "cleared" ELSE @,
                            !.promise = reject(@, "failed to start")]
    /\ ExecOnly

(* The 'error' event of the child process. *)
child_error ==
    /\ exec.pc = "called"
    /\ exec.child = "running"
    /\ exec' = [exec EXCEPT !.child = "failed",
                            !.processExited = TRUE,
                            !.timeoutId = IF @ = "armed" THEN "cleared" ELSE @,
                            !.promise = IF exec.initialResponseSent THEN @
                                        ELSE reject(@, "failed to start")]
    /\ ExecOnly

(* The value the 'exit' handler resolves with: the parsed object, with the *)
(* stderr output attached as pluginStderr when there is some.              *)
ExitValue(status, errorOutput) ==
    IF errorOutput THEN status \o " pluginStderr" ELSE status
(* The error of a non-zero exit, with its excerpts of stdout and stderr. *)
ExitCodeError(outputBuffer, errorOutput) ==
    "exited with code"
       \o (IF trim(outputBuffer) # <<>> THEN " Stdout" ELSE "")
       \o (IF errorOutput THEN " Stderr" ELSE "")

(* The 'exit' handler that looks at the exit code before the output. *)
child_exit_codeFirst(code, signal) ==
    /\ exec.pc = "called"
    /\ exec.child \in {"running", "killed"}
    /\ exec.child = "killed" => signal = "SIGKILL"
    /\ exec' =
          LET exited == [exec EXCEPT !.child = "exited",
                                     !.code = code, !.signal = signal,
                                     !.processExited = TRUE,
                                     !.timeoutId = IF @ = "armed" THEN "cleared"
                                                   ELSE @]
              status == JSONparse(exec.outputBuffer)
          IN IF exec.isAsyncPlugin /\ exec.initialResponseSent THEN exited
             ELSE IF signal = "SIGKILL"
             THEN [exited EXCEPT !.promise =
                      IF exec.initialResponseSent THEN @
                      ELSE reject(@, "timed out or was killed")]
             ELSE IF code # "zero"
             THEN [exited EXCEPT !.promise =
                      IF exec.initialResponseSent THEN @
                      ELSE reject(@, ExitCodeError(exec.outputBuffer,
                                                   exec.errorOutput))]
             ELSE IF status \in {"success", "error"}
             THEN [exited EXCEPT !.promise =
                      IF exec.initialResponseSent THEN @
                      ELSE resolve(@, ExitValue(status, exec.errorOutput))]
             ELSE [exited EXCEPT !.promise =
                      IF exec.initialResponseSent THEN @
                      ELSE reject(@, "no valid JSON response")]
    /\ ExecOnly

(* The 'exit' event of the child process: it ended by itself with an exit  *)
(* code, or by SIGKILL, sent by the timer or from outside.                 *)
child_exit(code, signal) ==
    /\ exec.pc = "called"
    /\ exec.child \in {"running", "killed"}
    /\ exec.child = "killed" => signal = "SIGKILL"
    /\ exec' =
          LET exited == [exec EXCEPT !.child = "exited",
                                     !.code = code, !.signal = signal,
                                     !.processExited = TRUE,
                                     !.timeoutId = IF @ = "armed" THEN "cleared"
                                                   ELSE @]
              status == JSONparse(exec.outputBuffer)
          IN IF exec.isAsyncPlugin /\ exec.initialResponseSent THEN exited
             ELSE IF signal = "SIGKILL"
             THEN [exited EXCEPT !.promise =
                      IF exec.initialResponseSent THEN @
                      ELSE reject(@, "timed out or was killed")]
             ELSE IF status \in {"success", "error"}
             THEN [exited EXCEPT !.promise =
                      IF exec.initialResponseSent THEN @
                      ELSE resolve(@, ExitValue(status, exec.errorOutput))]
             ELSE [exited EXCEPT !.promise =
                      IF exec.initialResponseSent THEN @
                      ELSE IF code # "zero"
                      THEN reject(@, ExitCodeError(exec.outputBuffer,
                                                   exec.errorOutput))
                      ELSE reject(@, "no valid JSON response")]
    /\ ExecOnly

InitExec ==
    /\ Constructed
    /\ CfgUnused
    /\ PpUnused
    /\ disk \in {CHOOSE d \in InitialDisks : TRUE}
    /\ orderFile = NoOrderFile

NextExec ==
    \/ \E pluginType \in PluginTypes, stdinThrows \in BOOLEAN :
          executePlugin(pluginType, stdinThrows)
    \/ timeout_fires
    \/ \E data \in Chunks : stdout_data(data)
    \/ stderr_data
    \/ child_error
    \/ \E code \in ExitCodes, signal \in {"none", "SIGKILL"} :
          child_exit(code, signal)

SpecExec == InitExec /\ [][NextExec]_vars

-----------------------------------------------------------------------------
(* processToolCall: one top-level call.  Its awaits (executePlugin, the    *)
(* file fetch, the remote tool, the in-process module) each end a step.    *)
(* The retry is the function calling itself from inside the try block of   *)
(* the fetch: frames holds, for each call the running one is inside of,    *)
(* its arguments and the plugin output that made it retry.                 *)

MaxRetries == 2      \* the recursion the model follows; the code has no bound

(* JavaScript values: the type, the text of a primitive, the properties  *)
(* of an object or array.                                                  *)
JV(type, text) == [type |-> type, text |-> text, fields |-> EmptyMap]
JObject(fields) == [type |-> "object", text |-> "", fields |-> fields]
JArray(fields) == [type |-> "array", text |-> "", fields |-> fields]
JUndefined == JV("undefined", "undefined")
ResultValues == { JV("number", "42"), JV("string", "{a:1}"),
                  JV("string", "42"), JV("string", "plain text"),
                  JObject("a" :> JV("number", "1")),
                  JArray("0" :> JV("number", "1")),
                  JV("null", "null"), JUndefined }
(* JSON.parse of a result string; type "throws" when it does not parse. *)
JSONparseResult(text) ==
    IF text = "{a:1}" THEN JObject("a" :> JV("number", "1"))
    ELSE IF text = "42" THEN JV("number", "42")
    ELSE JV("throws", text)

Timestamp == "2026-01-01T00:00:00.000+00:00"
Absent == "none"

(* What executePlugin resolves with: the object the plugin printed. *)
Output(status, result, error, code, fileUrl, failedParameter) ==
    [status |-> status, result |-> result, error |-> error, code |-> code,
     fileUrl |-> fileUrl, failedParameter |-> failedParameter]
NoOutput == Output(Absent, JUndefined, Absent, Absent, Absent, Absent)
PluginOutputs ==
    { Output("success", r, Absent, Absent, Absent, Absent) : r \in ResultValues }
    \cup { Output("error", JUndefined, "boom", Absent, Absent, Absent),
           Output("error", JUndefined, Absent, Absent, Absent, Absent),
           Output("error", JUndefined, "no file", "FILE_NOT_FOUND_LOCALLY",
                  Absent, "image_url_1") }
    \cup { Output("error", JUndefined, "no file", "FILE_NOT_FOUND_LOCALLY",
                  "file://a", p) :
              p \in {Absent, "image_url_1", "image_url_2"} }
(* The messages executePlugin rejects with. *)
ExecuteErrors == {"execution timed out", "Failed to start plugin",
                  "exited with code 1", "did not provide a valid JSON response"}

(* An Error's message: text that parses as a JSON object, or plain text. *)
PlainMessage(text) == [json |-> FALSE, fields |-> EmptyMap, text |-> text]
JsonMessage(fields) == [json |-> TRUE, fields |-> fields, text |-> ""]

maidNameFromArgs(toolArgs) ==
    IF Has(toolArgs, "maid") THEN toolArgs["maid"] ELSE Absent

(* The catch block of processToolCall: what it throws for the error e. *)
CatchBlock(e, toolArgs) ==
    LET errorObject == IF e.json THEN e.fields
                       ELSE ("plugin_execution_error" :> e.text)
        maid == maidNameFromArgs(toolArgs)
        named == IF maid # Absent /\ ~Has(errorObject, "MaidName")
                 THEN Put(errorObject, "MaidName", maid) ELSE errorObject
        stamped == IF ~Has(named, "timestamp")
                   THEN Put(named, "timestamp", Timestamp) ELSE named
    IN JsonMessage(stamped)

(* JSON.stringify of an error object, its keys in the order of insertion. *)
ErrorKeys == <<"plugin_error", "plugin_execution_error",
               "original_plugin_error", "MaidName", "timestamp">>
RECURSIVE stringify(_, _)
stringify(fields, i) ==
    IF i > Len(ErrorKeys) THEN "}"
    ELSE (IF Has(fields, ErrorKeys[i])
          THEN " " \o ErrorKeys[i] \o ":" \o fields[ErrorKeys[i]]
          ELSE "") \o stringify(fields, i + 1)
MessageText(e) == IF e.json THEN "{" \o stringify(e.fields, 1) ELSE e.text

(* The catch block around the fetch and the retry (656 to 661): what it    *)
(* throws for the error of either, pluginOutput being the output that led  *)
(* to the fetch.                                                           *)
FetchCatch(fetchError, pluginOutput) ==
    JsonMessage(
       ("plugin_error" :> "Plugin reported local file not found, but remote fetch failed: "
                             \o MessageText(fetchError))
       @@ IF pluginOutput.error # Absent
          THEN ("original_plugin_error" :> pluginOutput.error)
          ELSE EmptyMap)

(* An error thrown in the try block of the running call: its catch block   *)
(* throws it on, and each call it is inside of catches that at the retry   *)
(* and throws it on in turn.                                               *)
RECURSIVE ThrownInTry(_, _, _)
ThrownInTry(e, toolArgs, frames) ==
    IF frames = <<>> THEN CatchBlock(e, toolArgs)
    ELSE LET outer == frames[Len(frames)]
         IN ThrownInTry(FetchCatch(CatchBlock(e, toolArgs), outer.pluginOutput),
                        outer.toolArgs, SubSeq(frames, 1, Len(frames) - 1))
(* An error thrown before the try block of the running call (529). *)
ThrownBeforeTry(e, frames) ==
    IF frames = <<>> THEN e
    ELSE LET outer == frames[Len(frames)]
         IN ThrownInTry(FetchCatch(e, outer.pluginOutput), outer.toolArgs,
                        SubSeq(frames, 1, Len(frames) - 1))

(* Lines 669 to 676 without the wrapper of results that are not objects. *)
finalResultObject_unwrapped(resultFromPlugin, toolArgs) ==
    LET maid == maidNameFromArgs(toolArgs)
        named == IF maid # Absent
                 THEN Put(resultFromPlugin.fields, "MaidName",
                          JV("string", maid))
                 ELSE resultFromPlugin.fields
    IN [kind |-> resultFromPlugin.type,
        fields |-> Put(named, "timestamp", JV("string", Timestamp))]

(* Lines 669 to 676: the object the call returns for a result. *)
finalResultObject(resultFromPlugin, toolArgs) ==
    LET isObject == resultFromPlugin.type \in {"object", "array"}
        own == IF isObject THEN resultFromPlugin.fields
               ELSE ("original_plugin_output" :> resultFromPlugin)
        maid == maidNameFromArgs(toolArgs)
        named == IF maid # Absent
                 THEN Put(own, "MaidName", JV("string", maid)) ELSE own
    IN [kind |-> IF isObject THEN resultFromPlugin.type ELSE "object",
        fields |-> Put(named, "timestamp", JV("string", Timestamp))]

(* Lines 602 to 615: the result of a stdio plugin that reported success. *)
resultFromStdio(pluginOutput) ==
    IF pluginOutput.result.type = "string"
    THEN IF JSONparseResult(pluginOutput.result.text).type = "throws"
         THEN JObject("original_plugin_output" :> pluginOutput.result)
         ELSE JSONparseResult(pluginOutput.result.text)
    ELSE pluginOutput.result

(* The plugin map and the service modules the calls are made against: a    *)
(* synchronous stdio plugin, a service and two hybrid services with loaded *)
(* modules, one of them without a processToolCall function, a static       *)
(* plugin and a tool of a distributed server.                              *)
CallModule(folder, hasProcessToolCall) ==
    [path |-> folder, processMessages |-> FALSE,
     processToolCall |-> hasProcessToolCall]
CallPlugins ==
    [n \in {"P", "Svc", "Hyb", "Bare", "St"} |->
        LocalEntry(DiskManifest(n, CASE n = "P" -> "synchronous"
                                     [] n = "Svc" -> "service"
                                     [] n = "St" -> "static"
                                     [] OTHER -> "hybridservice"),
                   n, EmptyMap)]
    @@ ("R" :> DistributedEntry(ToolManifest("R"), "S1"))
CallServiceModules ==
    [n \in {"Svc", "Hyb", "Bare"} |->
        [manifest |-> DiskManifest(n, IF n = "Svc" THEN "service"
                                      ELSE "hybridservice"),
         module |-> CallModule(n, n # "Bare")]]
ToolNames == {"P", "Svc", "Hyb", "Bare", "St", "R", "Missing"}
ToolArgs == { ("x" :> "1"),
              ("image_url_1" :> "file://a") @@ ("prompt" :> "p"),
              ("image_url_1" :> "file://a") @@ ("maid" :> "Nova"),
              ("image_url_1" :> "file://a") @@ ("image_url_2" :> "file://b"),
              ("image_url" :> "file://a"),
              ("maid" :> "Nova") }
RequestIps == {Absent, "10.0.0.1"}
DataUri == "data:image/png;base64,AAAA"

getServiceModule(name) ==
    IF Has(serviceModules, name) THEN serviceModules[name].module
    ELSE [path |-> Absent, processMessages |-> FALSE,
          processToolCall |-> FALSE]

NoResult == [kind |-> "none", fields |-> EmptyMap]

(* processToolCall up to its first await, for a call made inside the calls *)
(* of frames, in a top-level call that has run so far as c records.        *)
Enter(c, toolName, toolArgs, frames) ==
    LET frame == [c EXCEPT !.toolName = toolName, !.toolArgs = toolArgs,
                           !.frames = frames]
        throws(text) ==
            [frame EXCEPT !.pc = "thrown",
                          !.outcome = ThrownInTry(PlainMessage(text), toolArgs,
                                                  frames)]
    IN IF ~Has(plugins, toolName)
       THEN [frame EXCEPT !.pc = "thrown",
                !.outcome =
                   ThrownBeforeTry(PlainMessage("Plugin not found for tool call"),
                                   frames)]
       ELSE LET plugin == plugins[toolName]
            IN IF plugin.isDistributed
               THEN IF ~webSocketServer
                    THEN throws("WebSocketServer is not initialized")
                    ELSE [frame EXCEPT !.pc = "executeDistributedTool",
                                       !.via = "remote"]
               ELSE IF toolName = "ChromeControl" /\ plugin.protocol = "direct"
               THEN IF ~webSocketServer
                    THEN throws("WebSocketServer is not initialized")
                    ELSE [frame EXCEPT !.pc = "executeDistributedTool",
                                       !.via = "chrome"]
               ELSE IF plugin.pluginType = "hybridservice"
                       /\ plugin.protocol = "direct"
               THEN IF getServiceModule(toolName).processToolCall
                    THEN [frame EXCEPT !.pc = "module", !.via = "module"]
                    ELSE throws("does not have a processToolCall function")
               ELSE IF ~(plugin.pluginType \in {"synchronous", "asynchronous"}
                         /\ plugin.protocol = "stdio")
               THEN throws("is not a supported stdio plugin")
               ELSE [frame EXCEPT !.pc = "executePlugin", !.via = "stdio",
                                  !.executed = @ + 1]

CallOnly ==
    UNCHANGED <<managerVars, fsVars, loadVars, historyVars, cfgVars, ppVars,
                watchVars, staticVars, exec, otherVars>>

processToolCall_called(toolName, toolArgs, requestIp) ==
    /\ call.pc = "idle"
    /\ call' = Enter([pc |-> "idle", toolName |-> toolName,
                      toolArgs |-> toolArgs, topArgs |-> toolArgs,
                      requestIp |-> requestIp, frames |-> <<>>,
                      executed |-> 0, fetched |-> 0, via |-> Absent,
                      pluginOutput |-> NoOutput,
                      resultFromPlugin |-> JUndefined, outcome |-> NoResult],
                     toolName, toolArgs, <<>>)
    /\ CallOnly

(* The await of executePlugin rejects. *)
executePlugin_rejects(message) ==
    /\ call.pc = "executePlugin"
    /\ call' = [call EXCEPT !.pc = "thrown",
                   !.outcome = ThrownInTry(PlainMessage(message), call.toolArgs,
                                           call.frames)]
    /\ CallOnly

(* The await of executePlugin resolves with the plugin's output. *)
executePlugin_resolves(pluginOutput) ==
    /\ call.pc = "executePlugin"
    /\ call' =
          IF pluginOutput.status = "success"
          THEN [call EXCEPT !.pc = "returned", !.pluginOutput = pluginOutput,
                   !.resultFromPlugin = resultFromStdio(pluginOutput),
                   !.outcome = finalResultObject(resultFromStdio(pluginOutput),
                                                 call.toolArgs)]
          ELSE IF /\ pluginOutput.code = "FILE_NOT_FOUND_LOCALLY"
                  /\ pluginOutput.fileUrl # Absent
                  /\ call.requestIp # Absent
          THEN [call EXCEPT !.pc = "fetchFile", !.pluginOutput = pluginOutput,
                            !.fetched = @ + 1]
          ELSE [call EXCEPT !.pc = "thrown", !.pluginOutput = pluginOutput,
                   !.outcome =
                      ThrownInTry(
                         JsonMessage("plugin_error" :>
                            IF pluginOutput.error # Absent THEN pluginOutput.error
                            ELSE "Plugin reported an unspecified error."),
                         call.toolArgs, call.frames)]
    /\ CallOnly

(* failedParam.replace('image_url_', '') *)
paramIndex(failedParam) ==
    CASE failedParam = "image_url_1" -> "1"
      [] failedParam = "image_url_2" -> "2"
      [] OTHER -> failedParam

(* The retry's arguments that keep the parameter that failed. *)
newToolArgs_keepsUrl(toolArgs, failedParam) ==
    IF failedParam # Absent /\ Has(toolArgs, failedParam)
    THEN Put(toolArgs, "image_base64_" \o paramIndex(failedParam), DataUri)
    ELSE Put(Remove(toolArgs, "image_url"), "image_base64", DataUri)

(* Lines 629 to 651: the arguments of the retry. *)
newToolArgs(toolArgs, failedParam) ==
    IF failedParam # Absent /\ Has(toolArgs, failedParam)
    THEN Put(Remove(toolArgs, failedParam),
             "image_base64_" \o paramIndex(failedParam), DataUri)
    ELSE Put(Remove(toolArgs, "image_url"), "image_base64", DataUri)

(* The fetch succeeded: the function calls itself with the new arguments. *)
fetchFile_resolves ==
    /\ call.pc = "fetchFile"
    /\ Len(call.frames) < MaxRetries
    /\ call' = Enter(call, call.toolName,
                     newToolArgs(call.toolArgs, call.pluginOutput.failedParameter),
                     Append(call.frames,
                            [toolArgs |-> call.toolArgs,
                             pluginOutput |-> call.pluginOutput]))
    /\ CallOnly

(* The fetch failed. *)
fetchFile_rejects ==
    /\ call.pc = "fetchFile"
    /\ call' = [call EXCEPT !.pc = "thrown",
                   !.outcome =
                      ThrownInTry(FetchCatch(PlainMessage("fetch failed"),
                                             call.pluginOutput),
                                  call.toolArgs, call.frames)]
    /\ CallOnly

(* The in-process module, or the remote tool, returns a result. *)
direct_resolves(resultFromPlugin) ==
    /\ call.pc \in {"module", "executeDistributedTool"}
    /\ call' = [call EXCEPT !.pc = "returned",
                   !.resultFromPlugin = resultFromPlugin,
                   !.outcome = finalResultObject(resultFromPlugin,
                                                 call.toolArgs)]
    /\ CallOnly

(* The in-process module, or the remote tool, fails. *)
direct_rejects(message) ==
    /\ call.pc \in {"module", "executeDistributedTool"}
    /\ call' = [call EXCEPT !.pc = "thrown",
                   !.outcome = ThrownInTry(PlainMessage(message), call.toolArgs,
                                           call.frames)]
    /\ CallOnly

InitCall ==
    /\ plugins = CallPlugins
    /\ staticPlaceholderValues = EmptyMap
    /\ scheduledJobs = EmptyMap
    /\ messagePreprocessors = EmptyMap
    /\ preprocessorOrder = <<>>
    /\ serviceModules = CallServiceModules
    /\ individualPluginDescriptions = buildVCPDescription(CallPlugins)
    /\ lp = Idle
    /\ fsEdits = 0
    /\ nLoads = 0
    /\ lastLoad = NoLoad
    /\ fsDirty = FALSE
    /\ evicted = NoEviction
    /\ NoReloadPending
    /\ NoChildRunning
    /\ CfgUnused
    /\ PpUnused
    /\ disk \in {CHOOSE d \in InitialDisks : TRUE}
    /\ orderFile = NoOrderFile

NextCall ==
    \/ setWebSocketServer
    \/ \E toolName \in ToolNames, toolArgs \in ToolArgs,
          requestIp \in RequestIps :
          processToolCall_called(toolName, toolArgs, requestIp)
    \/ \E message \in ExecuteErrors : executePlugin_rejects(message)
    \/ \E pluginOutput \in PluginOutputs : executePlugin_resolves(pluginOutput)
    \/ fetchFile_resolves
    \/ fetchFile_rejects
    \/ \E resultFromPlugin \in ResultValues : direct_resolves(resultFromPlugin)
    \/ \E message \in {"boom"} : direct_rejects(message)

SpecCall == InitCall /\ [][NextCall]_vars

-----------------------------------------------------------------------------
(* _getFormattedLocalTimestamp: the time-zone suffix of the timestamp that *)
(* processToolCall puts into results.  The date and time fields do not     *)
(* depend on the offset and are left out; the offset is whatever           *)
(* Date.prototype.getTimezoneOffset returns, minutes west of UTC.          *)

MinOffset == 0 - 840                \* UTC+14:00
MaxOffset == 720                    \* UTC-12:00
TimezoneOffsets == MinOffset .. MaxOffset

DecimalDigit == <<"0", "1", "2", "3", "4", "5", "6", "7", "8", "9">>

(* Number.prototype.toString of a natural number. *)
RECURSIVE toString(_)
toString(n) ==
    IF n < 10 THEN DecimalDigit[n + 1]
    ELSE toString(n \div 10) \o DecimalDigit[(n % 10) + 1]

(* toString().padStart(2, '0') of a natural number. *)
padStart2(n) == IF n < 10 THEN "0" \o toString(n) ELSE toString(n)

abs(x) == IF x < 0 THEN 0 - x ELSE x

(* Math.floor(a / b) for b > 0. *)
floorDiv(a, b) == a \div b

(* JavaScript's a % b for b > 0: the remainder has the sign of a. *)
remainder(a, b) == IF a < 0 THEN 0 - ((0 - a) % b) ELSE a % b

offsetSign(timezoneOffsetMinutes) ==
    IF timezoneOffsetMinutes > 0 THEN "-" ELSE "+"

offsetHours(timezoneOffsetMinutes) ==
    padStart2(abs(floorDiv(timezoneOffsetMinutes, 60)))

offsetMinutes(timezoneOffsetMinutes) ==
    padStart2(abs(remainder(timezoneOffsetMinutes, 60)))

timezoneString(timezoneOffsetMinutes) ==
    offsetSign(timezoneOffsetMinutes) \o offsetHours(timezoneOffsetMinutes)
       \o ":" \o offsetMinutes(timezoneOffsetMinutes)

StampOnly ==
    UNCHANGED <<baseVars, cmd, chat, shell, fetcher, divider, launcher>>

getFormattedLocalTimestamp(timezoneOffsetMinutes) ==
    /\ stamp' = [pc |-> "returned",
                 timezoneOffsetMinutes |-> timezoneOffsetMinutes,
                 timezoneString |-> timezoneString(timezoneOffsetMinutes)]
    /\ StampOnly

InitStamp == InitExec

NextStamp ==
    \E m \in TimezoneOffsets : getFormattedLocalTimestamp(m)

SpecStamp == InitStamp /\ [][NextStamp]_vars

-----------------------------------------------------------------------------
(* _executeStaticPluginCommand: one run of a static plugin's command, from *)
(* the spawn of the child to the settling of the returned promise, and the *)
(* _updateStaticPluginValue that awaits it.  The child's stdout is a       *)
(* sequence of tokens, text (v) and white space.                           *)

MaxOutput == 2
StaticChunks == {"v", " "}
StaticExitCodes == {"zero", "nonzero", "null"}
StaticSignals == {"none", "SIGKILL", "SIGTERM"}

(* data.toString() of the chunks received, as one text. *)
RECURSIVE outputText(_)
outputText(tokens) ==
    IF tokens = <<>> THEN "" ELSE Head(tokens) \o outputText(Tail(tokens))

CmdOnly ==
    UNCHANGED <<baseVars, stamp, chat, shell, fetcher, divider, launcher>>

(* _updateStaticPluginValue calls the command and awaits its promise.  An  *)
(* invalid plugin gets a rejected promise and no child.                    *)
executeStaticPluginCommand(valid) ==
    /\ cmd.pc = "idle"
    /\ cmd' = [pc |-> "awaiting",
               child |-> IF valid THEN "running" ELSE "none",
               output |-> <<>>,
               errorOutput |-> FALSE,
               processExited |-> FALSE,
               timeoutId |-> IF valid THEN "armed" ELSE "none",
               signal |-> "none",
               kills |-> 0,
               promise |-> IF valid THEN Pending
                           ELSE reject(Pending, "Invalid static plugin")]
    /\ CmdOnly

(* The timer callback. *)
static_timeout_fires ==
    /\ cmd.pc # "idle"
    /\ cmd.timeoutId = "armed"
    /\ cmd' = IF ~cmd.processExited
              THEN [cmd EXCEPT !.timeoutId = "fired",
                               !.child = IF @ = "running" THEN "killed" ELSE @,
                               !.kills = @ + 1,
                               !.promise = reject(@, "execution timed out")]
              ELSE [cmd EXCEPT !.timeoutId = "fired"]
    /\ CmdOnly

static_stdout_data(data) ==
    /\ cmd.pc # "idle"
    /\ cmd.child \in {"running", "killed"}
    /\ Len(cmd.output) < MaxOutput
    /\ cmd' = [cmd EXCEPT !.output = Append(@, data)]
    /\ CmdOnly

static_stderr_data ==
    /\ cmd.pc # "idle"
    /\ cmd.child \in {"running", "killed"}
    /\ ~cmd.errorOutput
    /\ cmd' = [cmd EXCEPT !.errorOutput = TRUE]
    /\ CmdOnly

(* The child's 'error' event: the command could not be spawned. *)
static_child_error ==
    /\ cmd.pc # "idle"
    /\ cmd.child = "running"
    /\ cmd' = [cmd EXCEPT !.child = "failed",
                          !.processExited = TRUE,
                          !.timeoutId = IF @ = "armed" THEN "cleared" ELSE @,
                          !.promise = reject(@, "spawn error")]
    /\ CmdOnly

(* The child's 'exit' event.  A child killed by a signal has a null code;  *)
(* the signal is the timer's SIGKILL or one sent by another process.       *)
static_child_exit(code, signal) ==
    /\ cmd.pc # "idle"
    /\ cmd.child \in {"running", "killed"}
    /\ cmd.child = "killed" => signal = "SIGKILL"
    /\ (signal = "none") = (code # "null")
    /\ cmd' =
          LET exited == [cmd EXCEPT !.child = "exited",
                                    !.signal = signal,
                                    !.processExited = TRUE,
                                    !.timeoutId = IF @ = "armed" THEN "cleared"
                                                  ELSE @]
          IN IF signal = "SIGKILL" THEN exited
             ELSE IF code # "zero"
             THEN [exited EXCEPT !.promise = reject(@, "exited with code")]
             ELSE [exited EXCEPT !.promise = resolve(@, outputText(trim(cmd.output)))]
    /\ CmdOnly

(* The await of _updateStaticPluginValue resumes once the promise settled. *)
updateStaticPluginValue_resumes ==
    /\ cmd.pc = "awaiting"
    /\ cmd.promise.state # "pending"
    /\ cmd' = [cmd EXCEPT !.pc = "completed"]
    /\ CmdOnly

InitCmd == InitExec

NextCmd ==
    \/ \E valid \in BOOLEAN : executeStaticPluginCommand(valid)
    \/ static_timeout_fires
    \/ \E data \in StaticChunks : static_stdout_data(data)
    \/ static_stderr_data
    \/ static_child_error
    \/ \E code \in StaticExitCodes, signal \in StaticSignals :
          static_child_exit(code, signal)
    \/ updateStaticPluginValue_resumes

SpecCmd ==
    /\ InitCmd
    /\ [][NextCmd]_vars
    /\ WF_vars(static_timeout_fires)
    /\ WF_vars(updateStaticPluginValue_resumes)

-----------------------------------------------------------------------------
(* GroupChatServer: the WebSocket upgrade of the group chat service.  A    *)
(* path is the text before the last segment and the last segment's         *)
(* characters.  A key of a Map is a JavaScript value: a string, compared   *)
(* by its characters, or an object such as the array String.match returns, *)
(* compared by identity (ref).                                             *)

MaxSockets == 3
MaxBroadcasts == 2
WS_PATH_PREFIX == "/api/groups/ws/"
HexChars == {"a", "b", "c", "d", "e", "f", "A", "B", "C", "D", "E", "F",
             "0", "1", "2", "3", "4", "5", "6", "7", "8", "9", "-"}
GroupIds == {<<"a", "1">>, <<"b", "2">>}
Pathnames ==
    { [prefix |-> WS_PATH_PREFIX, rest |-> <<"a", "1">>],
      [prefix |-> WS_PATH_PREFIX, rest |-> <<"b", "2">>],
      [prefix |-> WS_PATH_PREFIX, rest |-> <<"g", "1">>],
      [prefix |-> WS_PATH_PREFIX, rest |-> <<>>],
      [prefix |-> "/api/other/", rest |-> <<"a", "1">>] }

StringValue(chars) == [kind |-> "string", chars |-> chars, ref |-> 0]
ArrayValue(chars, ref) == [kind |-> "array", chars |-> chars, ref |-> ref]
Null == [kind |-> "null", chars |-> <<>>, ref |-> 0]

(* pathname.match(/^<prefix>([a-fA-F0-9-]+)$/): null, or a new array whose *)
(* element 1 is the captured id. *)
pathnameMatch(pathname, ref) ==
    IF /\ pathname.prefix = WS_PATH_PREFIX
       /\ pathname.rest # <<>>
       /\ \A i \in DOMAIN pathname.rest : pathname.rest[i] \in HexChars
    THEN ArrayValue(pathname.rest, ref)
    ELSE Null

ChatOnly ==
    UNCHANGED <<baseVars, stamp, cmd, shell, fetcher, divider, launcher>>

(* The constructor: no group, no client. *)
GroupChatServer ==
    /\ chat.pc = "idle"
    /\ chat' = [pc |-> "serving",
                groupsState |-> {},        \* the keys of this.groupsState
                clients |-> EmptyMap,      \* key -> set of sockets
                sockets |-> <<>>,          \* every socket that asked to upgrade
                broadcasts |-> 0]
    /\ ChatOnly

create_group(id) ==
    /\ chat.pc = "serving"
    /\ StringValue(id) \notin chat.groupsState
    /\ chat' = [chat EXCEPT !.groupsState = @ \cup {StringValue(id)}]
    /\ ChatOnly

(* _handleConnection adds the socket to the client set of the key. *)
handleConnection(clients, ws, groupId) ==
    Put(clients, groupId,
        (IF Has(clients, groupId) THEN clients[groupId] ELSE {}) \cup {ws})

(* handleUpgrade: the socket is destroyed, or upgraded and registered. *)
handleUpgrade(pathname) ==
    /\ chat.pc = "serving"
    /\ Len(chat.sockets) < MaxSockets
    /\ LET ws == Len(chat.sockets) + 1
           match == pathnameMatch(pathname, ws)
           groupId == match
           known == StringValue(pathname.rest) \in chat.groupsState
           socket(state) == [pathname |-> pathname, known |-> known,
                             state |-> state, received |-> 0]
       IN chat' =
             IF match = Null
             THEN [chat EXCEPT !.sockets = Append(@, socket("destroyed"))]
             ELSE IF groupId \notin chat.groupsState
             THEN [chat EXCEPT !.sockets = Append(@, socket("destroyed"))]
             ELSE [chat EXCEPT !.sockets = Append(@, socket("open")),
                               !.clients = handleConnection(@, ws, groupId)]
    /\ ChatOnly

(* broadcastToGroup sends to every open client of the group. *)
broadcastToGroup(id) ==
    /\ chat.pc = "serving"
    /\ chat.broadcasts < MaxBroadcasts
    /\ LET groupId == StringValue(id)
           groupClients == IF Has(chat.clients, groupId)
                           THEN chat.clients[groupId] ELSE {}
       IN chat' = [chat EXCEPT
             !.broadcasts = @ + 1,
             !.sockets = [s \in DOMAIN @ |->
                            IF s \in groupClients /\ @[s].state = "open"
                            THEN [@[s] EXCEPT !.received = @ + 1]
                            ELSE @[s]]]
    /\ ChatOnly

InitChat == InitExec

NextChat ==
    \/ GroupChatServer
    \/ \E id \in GroupIds : create_group(id)
    \/ \E pathname \in Pathnames : handleUpgrade(pathname)
    \/ \E id \in GroupIds : broadcastToGroup(id)

SpecChat == InitChat /\ [][NextChat]_vars

-----------------------------------------------------------------------------
(* LinuxShellExecutor.execute: the check layers a command passes before it *)
(* is run.  What a check answers for the command, whether the SSH module   *)
(* is loaded and whether the run succeeds are inputs of the call.          *)

CheckLayers == <<"blacklist", "whitelist", "ast">>

(* this.securityLevels, an object literal: its own properties, and the     *)
(* properties every object inherits from Object.prototype.                 *)
securityLevels ==
    [basic |-> {"blacklist"},
     standard |-> {"blacklist", "whitelist", "sandbox"},
     high |-> {"blacklist", "whitelist", "ast", "sandbox"},
     maximum |-> {"blacklist", "whitelist", "ast", "sandbox", "audit"}]
InheritedProperties == {"constructor", "toString"}
SecurityLevelNames ==
    DOMAIN securityLevels \cup InheritedProperties \cup {"paranoid", ""}
HostLevels == {"", "high"}
HostTypes == {"local", "ssh"}

(* a || b on strings: the empty string is falsy. *)
OrElse(a, b) == IF a # "" THEN a ELSE b

(* this.securityLevels[securityLevel] || this.securityLevels.standard: an  *)
(* array of layer names, or the inherited function found under the name.   *)
enabledLayers(securityLevel) ==
    IF securityLevel \in DOMAIN securityLevels
    THEN [array |-> TRUE, layers |-> securityLevels[securityLevel]]
    ELSE IF securityLevel \in InheritedProperties
    THEN [array |-> FALSE, layers |-> {}]
    ELSE [array |-> TRUE, layers |-> securityLevels.standard]

(* The checks in the order of the code, each run only if enabled, up to    *)
(* and including the first one that does not pass.                         *)
RECURSIVE runLayers(_, _, _)
runLayers(enabled, passed, i) ==
    IF i > Len(CheckLayers) THEN <<>>
    ELSE IF CheckLayers[i] \notin enabled THEN runLayers(enabled, passed, i + 1)
    ELSE IF ~passed[CheckLayers[i]] THEN <<CheckLayers[i]>>
    ELSE <<CheckLayers[i]>> \o runLayers(enabled, passed, i + 1)

ShellOnly ==
    UNCHANGED <<baseVars, stamp, cmd, chat, fetcher, divider, launcher>>

execute(optionsLevel, hostLevel, hostType, passed, managerLoaded, runs) ==
    LET securityLevel == OrElse(optionsLevel, OrElse(hostLevel, "standard"))
        enabled == enabledLayers(securityLevel)
        layers == runLayers(enabled.layers, passed, 1)
        blocked == layers # <<>> /\ ~passed[layers[Len(layers)]]
        audit == IF "audit" \in enabled.layers THEN 1 ELSE 0
        result == [pc |-> "returned", securityLevel |-> securityLevel,
                   hostType |-> hostType, passed |-> passed,
                   layers |-> layers, executed |-> "none",
                   status |-> "failed", audits |-> audit]
    IN /\ shell' =
             IF ~enabled.array
             THEN [result EXCEPT !.status = "TypeError", !.layers = <<>>,
                                 !.audits = 0]
             ELSE IF blocked THEN [result EXCEPT !.status = "blocked"]
             ELSE IF hostType = "ssh" /\ ~managerLoaded THEN result
             ELSE [result EXCEPT
                      !.executed = IF hostType = "ssh" THEN "ssh"
                                   ELSE IF "sandbox" \in enabled.layers
                                   THEN "sandbox" ELSE "direct",
                      !.status = IF runs THEN "success" ELSE "failed"]
       /\ ShellOnly

InitShell == InitExec

NextShell ==
    \E optionsLevel \in SecurityLevelNames, hostLevel \in HostLevels,
       hostType \in HostTypes,
       passed \in [{"blacklist", "whitelist", "ast"} -> BOOLEAN],
       managerLoaded \in BOOLEAN, runs \in BOOLEAN :
          execute(optionsLevel, hostLevel, hostType, passed, managerLoaded,
                  runs)

SpecShell == InitShell /\ [][NextShell]_vars

-----------------------------------------------------------------------------
(* FileFetcherServer.fetchFile: the guards against request loops.  Time is *)
(* Date.now() in seconds.  A call is suspended at each await (the read of  *)
(* the cache, the read of the file, the remote request), where time may    *)
(* pass and other calls may run.  What the file system and the remote node *)
(* answer are inputs.  Of a call that has settled only the outcome is      *)
(* kept; lastCall and lastRemote describe the latest call and the latest   *)
(* remote request.                                                         *)

MaxRequests == 3
REQ_CACHE_EXPIRATION_MS == 5        \* 5000 ms
CACHE_EXPIRATION_MS == 30           \* 30000 ms
FileUrls == {"file:///a.png", "http://b/a.png"}
FetchIps == {"10.0.0.1", ""}        \* a known distributed server, no ip
ReadOutcomes == {"data", "ENOENT", "EACCES"}
(* The instants at which something happens: they lie less than, exactly   *)
(* and more than 5 s and 30 s apart.                                       *)
Instants == {0, 1, 5, 30, 36}
Never == 0 - 1

startsWithFile(fileUrl) == fileUrl = "file:///a.png"

FetcherOnly ==
    UNCHANGED <<baseVars, stamp, cmd, chat, shell, divider, launcher>>

Settled(outcome) ==
    [pc |-> outcome, fileUrl |-> "", requestIp |-> "", at |-> Never]
NoFetch == [fileUrl |-> "", at |-> Never, previous |-> Never,
           guarded |-> FALSE, pc |-> "none"]
NoRemote == [fileUrl |-> "", at |-> Never, arrived |-> Never,
             previousAt |-> Never, previousArrived |-> Never,
             sinceFailure |-> Never]

(* The module as loaded and initialized. *)
initialize ==
    /\ fetcher.pc = "idle"
    /\ fetcher' = [pc |-> "serving",
                   now |-> 0,
                   recentRequests |-> EmptyMap,   \* fileUrl -> time
                   failedFetchCache |-> EmptyMap, \* fileUrl -> time
                   timeouts |-> {},               \* pending setTimeout calls
                   cached |-> {},                 \* urls with a cache file
                   calls |-> <<>>,                \* the fetchFile calls
                   lastArrival |-> [u \in FileUrls |-> Never],
                   lastIssue |-> [u \in FileUrls |->
                                    [at |-> Never, arrived |-> Never]],
                   lastFailure |-> [u \in FileUrls |-> Never],
                   lastCall |-> NoFetch,
                   lastRemote |-> NoRemote]
    /\ FetcherOnly

(* fetchFile up to its first await, with a guard that leaves the entry of  *)
(* a rejected request as it was.                                           *)
fetchFile_called_noRestart(fileUrl, requestIp) ==
    /\ fetcher.pc = "serving"
    /\ Len(fetcher.calls) < MaxRequests
    /\ LET now == fetcher.now
           repeated == /\ Has(fetcher.recentRequests, fileUrl)
                       /\ now - fetcher.recentRequests[fileUrl]
                             < REQ_CACHE_EXPIRATION_MS
           pc == IF repeated \/ ~startsWithFile(fileUrl) THEN "rejected"
                 ELSE "readCache"
           arrived == [fetcher EXCEPT
              !.lastArrival[fileUrl] = now,
              !.lastCall = [fileUrl |-> fileUrl, at |-> now,
                            previous |-> fetcher.lastArrival[fileUrl],
                            guarded |-> repeated, pc |-> pc],
              !.calls = Append(@,
                 IF pc = "rejected" THEN Settled("rejected")
                 ELSE [pc |-> pc, fileUrl |-> fileUrl,
                       requestIp |-> requestIp, at |-> now])]
       IN fetcher' =
             IF repeated THEN arrived
             ELSE [arrived EXCEPT
                     !.recentRequests = Put(@, fileUrl, now),
                     !.timeouts = @ \cup
                        {[fileUrl |-> fileUrl, now |-> now,
                          due |-> now + REQ_CACHE_EXPIRATION_MS * 2]}]
    /\ FetcherOnly

(* fetchFile up to its first await: the loop guard, the timer that clears  *)
(* the entry, the protocol test.                                           *)
fetchFile_called(fileUrl, requestIp) ==
    /\ fetcher.pc = "serving"
    /\ Len(fetcher.calls) < MaxRequests
    /\ LET now == fetcher.now
           repeated == /\ Has(fetcher.recentRequests, fileUrl)
                       /\ now - fetcher.recentRequests[fileUrl]
                             < REQ_CACHE_EXPIRATION_MS
           pc == IF repeated \/ ~startsWithFile(fileUrl) THEN "rejected"
                 ELSE "readCache"
           arrived == [fetcher EXCEPT
              !.lastArrival[fileUrl] = now,
              !.lastCall = [fileUrl |-> fileUrl, at |-> now,
                            previous |-> fetcher.lastArrival[fileUrl],
                            guarded |-> repeated, pc |-> pc],
              !.calls = Append(@,
                 IF pc = "rejected" THEN Settled("rejected")
                 ELSE [pc |-> pc, fileUrl |-> fileUrl,
                       requestIp |-> requestIp, at |-> now])]
       IN fetcher' =
             IF repeated
             THEN [arrived EXCEPT !.recentRequests = Put(@, fileUrl, now)]
             ELSE [arrived EXCEPT
                     !.recentRequests = Put(@, fileUrl, now),
                     !.timeouts = @ \cup
                        {[fileUrl |-> fileUrl, now |-> now,
                          due |-> now + REQ_CACHE_EXPIRATION_MS * 2]}]
    /\ FetcherOnly

(* The setTimeout callback, at or after its due time. *)
recentRequests_timeout(t) ==
    /\ fetcher.pc = "serving"
    /\ t \in fetcher.timeouts
    /\ t.due <= fetcher.now
    /\ fetcher' = [fetcher EXCEPT
          !.timeouts = @ \ {t},
          !.recentRequests =
             IF Has(@, t.fileUrl) /\ @[t.fileUrl] = t.now
             THEN Remove(@, t.fileUrl) ELSE @]
    /\ FetcherOnly

(* fs.readFile(cachedFilePath) settles. *)
readCache_settles(i, outcome) ==
    /\ fetcher.pc = "serving"
    /\ i \in DOMAIN fetcher.calls
    /\ fetcher.calls[i].pc = "readCache"
    /\ (outcome = "data") => fetcher.calls[i].fileUrl \in fetcher.cached
    /\ (outcome = "ENOENT") => fetcher.calls[i].fileUrl \notin fetcher.cached
    /\ fetcher' = [fetcher EXCEPT
          !.calls[i] = IF outcome = "data" THEN Settled("resolved")
                       ELSE IF outcome = "ENOENT"
                       THEN [@ EXCEPT !.pc = "readFile"]
                       ELSE Settled("rejected")]
    /\ FetcherOnly

(* fs.readFile(filePath) settles; on ENOENT the call goes on, without an   *)
(* await, to the failure cache and to the remote request.                  *)
readFile_settles(i, outcome) ==
    /\ fetcher.pc = "serving"
    /\ i \in DOMAIN fetcher.calls
    /\ fetcher.calls[i].pc = "readFile"
    /\ LET c == fetcher.calls[i]
           fileUrl == c.fileUrl
           now == fetcher.now
           cachedFailure == Has(fetcher.failedFetchCache, fileUrl)
           fresh == /\ cachedFailure
                    /\ now - fetcher.failedFetchCache[fileUrl]
                          < CACHE_EXPIRATION_MS
           cache == IF cachedFailure /\ ~fresh
                    THEN Remove(fetcher.failedFetchCache, fileUrl)
                    ELSE fetcher.failedFetchCache
       IN fetcher' =
             IF outcome = "data"
             THEN [fetcher EXCEPT !.calls[i] = Settled("resolved")]
             ELSE IF outcome # "ENOENT" \/ fresh
             THEN [fetcher EXCEPT !.calls[i] = Settled("rejected")]
             ELSE IF c.requestIp = ""
             THEN [fetcher EXCEPT !.failedFetchCache = cache,
                                  !.calls[i] = Settled("rejected")]
             ELSE [fetcher EXCEPT
                     !.failedFetchCache = cache,
                     !.calls[i] = [c EXCEPT !.pc = "remote"],
                     !.lastIssue[fileUrl] = [at |-> now, arrived |-> c.at],
                     !.lastRemote =
                        [fileUrl |-> fileUrl, at |-> now, arrived |-> c.at,
                         previousAt |-> fetcher.lastIssue[fileUrl].at,
                         previousArrived |->
                            fetcher.lastIssue[fileUrl].arrived,
                         sinceFailure |->
                            IF fetcher.lastFailure[fileUrl] = Never
                            THEN Never
                            ELSE now - fetcher.lastFailure[fileUrl]]]
    /\ FetcherOnly

(* executeDistributedTool settles; a file received is written to the cache *)
(* (the write may fail), a failure is remembered.                          *)
executeDistributedTool_settles(i, success, written) ==
    /\ fetcher.pc = "serving"
    /\ i \in DOMAIN fetcher.calls
    /\ fetcher.calls[i].pc = "remote"
    /\ LET fileUrl == fetcher.calls[i].fileUrl
       IN fetcher' =
             IF success
             THEN [fetcher EXCEPT
                     !.cached = IF written THEN @ \cup {fileUrl} ELSE @,
                     !.calls[i] = Settled("resolved")]
             ELSE [fetcher EXCEPT
                     !.failedFetchCache = Put(@, fileUrl, fetcher.now),
                     !.lastFailure[fileUrl] = fetcher.now,
                     !.calls[i] = Settled("rejected")]
    /\ FetcherOnly

(* Time passes. *)
Elapse(instant) ==
    /\ fetcher.pc = "serving"
    /\ fetcher.now < instant
    /\ fetcher' = [fetcher EXCEPT !.now = instant]
    /\ FetcherOnly

InitFetcher == InitExec

NextFetcher ==
    \/ initialize
    \/ \E fileUrl \in FileUrls, requestIp \in FetchIps :
          fetchFile_called(fileUrl, requestIp)
    \/ \E t \in (IF fetcher.pc = "serving" THEN fetcher.timeouts ELSE {}) :
          recentRequests_timeout(t)
    \/ \E i \in 1..MaxRequests, outcome \in ReadOutcomes :
          readCache_settles(i, outcome)
    \/ \E i \in 1..MaxRequests, outcome \in ReadOutcomes :
          readFile_settles(i, outcome)
    \/ \E i \in 1..MaxRequests, success \in BOOLEAN, written \in BOOLEAN :
          executeDistributedTool_settles(i, success, written)
    \/ \E instant \in Instants : Elapse(instant)

SpecFetcher == InitFetcher /\ [][NextFetcher]_vars

-----------------------------------------------------------------------------
(* roleDivider.process.  A content is a sequence of tokens: the tags       *)
(* <<<[ROLE_DIVIDE_USER]>>> (Su) and <<<[END_ROLE_DIVIDE_USER]>>> (Eu),    *)
(* the markers <<<[TOOL_REQUEST]>>> (T), <<<[END_TOOL_REQUEST]>>> (t),     *)
(* <<<DailyNoteStart>>> (D) and <<<DailyNoteEnd>>> (d), a word (x) and a   *)
(* blank.  No tag is part of another, so String.indexOf of a tag is the    *)
(* position of its token.  Positions count from 1; 0 is indexOf's -1.      *)

MaxContent == 4
DividerTokens == {"Su", "Eu", "T", "t", "D", "d", "x", " "}
Contents == UNION { [1..n -> DividerTokens] : n \in 0..MaxContent }
TAGS == [user |-> [START |-> "Su", END |-> "Eu", ROLE |-> "user"]]
blockMarkers == {[start |-> "T", end |-> "t"], [start |-> "D", end |-> "d"]}
IgnoreLists == {{}, {<<"x">>}}

indexOf(text, token, from) ==
    LET found == {i \in DOMAIN text : i >= from /\ text[i] = token}
    IN IF found = {} THEN 0 ELSE Lowest(found)

(* text.replace(/[\n\\ ]/g, '') *)
normalizeForIgnore(text) == SelectSeq(text, LAMBDA c : c # " ")

(* The blocks of one marker, [start, end) as the search loop finds them. *)
RECURSIVE markerBlocks(_, _, _)
markerBlocks(text, marker, searchPos) ==
    LET startIdx == indexOf(text, marker.start, searchPos)
        endIdx == indexOf(text, marker.end, startIdx + 1)
    IN IF startIdx = 0 THEN {}
       ELSE IF endIdx = 0 THEN markerBlocks(text, marker, startIdx + 1)
       ELSE {[start |-> startIdx, end |-> endIdx + 1]}
               \cup markerBlocks(text, marker, endIdx + 1)

protectedBlocks(text) ==
    UNION { markerBlocks(text, marker, 1) : marker \in blockMarkers }

Covering(blocks, index) ==
    {b \in blocks : index >= b.start /\ index < b.end}

(* protectedBlocks.find on the sorted array: the covering block that       *)
(* starts first. *)
currentBlock(blocks, cursor) ==
    CHOOSE b \in Covering(blocks, cursor) :
       \A o \in Covering(blocks, cursor) : b.start <= o.start

(* The first start tag at or after the cursor that is in no block. *)
RECURSIVE firstTagIndex(_, _, _)
firstTagIndex(text, blocks, searchIdx) ==
    LET index == indexOf(text, TAGS.user.START, searchIdx)
    IN IF index = 0 THEN 0
       ELSE IF Covering(blocks, index) # {}
       THEN firstTagIndex(text, blocks, index + 1)
       ELSE index

NotBlank(buffer) == \E i \in DOMAIN buffer : buffer[i] # " "

Pushed(resultMessages, role, content) ==
    Append(resultMessages, [role |-> role, content |-> content])
PushedUnlessBlank(resultMessages, role, buffer) ==
    IF NotBlank(buffer) THEN Pushed(resultMessages, role, buffer)
    ELSE resultMessages

(* The while loop of processSingleMessage. *)
RECURSIVE divide(_, _, _, _, _, _, _, _)
divide(text, blocks, baseRole, ignoreList, switch, cursor, buffer, result) ==
    IF cursor > Len(text)
    THEN PushedUnlessBlank(result, baseRole, buffer)
    ELSE IF Covering(blocks, cursor) # {}
    THEN LET b == currentBlock(blocks, cursor)
         IN divide(text, blocks, baseRole, ignoreList, switch, b.end,
                   buffer \o SubSeq(text, cursor, b.end - 1), result)
    ELSE
      LET tagIndex == IF switch THEN firstTagIndex(text, blocks, cursor)
                      ELSE 0
          contentStartIndex == tagIndex + 1
          endTagIndex == indexOf(text, TAGS.user.END, contentStartIndex)
          before == buffer \o SubSeq(text, cursor, tagIndex - 1)
          innerContent == SubSeq(text, contentStartIndex, endTagIndex - 1)
      IN IF tagIndex = 0
         THEN PushedUnlessBlank(result, baseRole,
                                buffer \o SubSeq(text, cursor, Len(text)))
         ELSE IF endTagIndex = 0
         THEN divide(text, blocks, baseRole, ignoreList, switch,
                     contentStartIndex, before, result)
         ELSE IF normalizeForIgnore(innerContent) \in ignoreList
         THEN divide(text, blocks, baseRole, ignoreList, switch,
                     endTagIndex + 1,
                     before \o <<TAGS.user.START>> \o innerContent
                            \o <<TAGS.user.END>>,
                     result)
         ELSE divide(text, blocks, baseRole, ignoreList, switch,
                     endTagIndex + 1, <<>>,
                     Pushed(PushedUnlessBlank(result, baseRole, before),
                            TAGS.user.ROLE, innerContent))

processSingleMessage(message, ignoreList, switch) ==
    LET resultMessages ==
           divide(message.content, protectedBlocks(message.content),
                  message.role,
                  {normalizeForIgnore(t) : t \in ignoreList}, switch,
                  1, <<>>, <<>>)
    IN IF resultMessages = <<>> THEN <<message>> ELSE resultMessages

RECURSIVE processFrom(_, _, _, _, _)
processFrom(messages, i, skipCount, ignoreList, switch) ==
    IF i > Len(messages) THEN <<>>
    ELSE (IF i <= skipCount THEN <<messages[i]>>
          ELSE processSingleMessage(messages[i], ignoreList, switch))
         \o processFrom(messages, i + 1, skipCount, ignoreList, switch)

DividerOnly ==
    UNCHANGED <<baseVars, stamp, cmd, chat, shell, fetcher, launcher>>

SystemPromptMessage == [role |-> "system", content |-> <<"Su", "x", "Eu">>]

(* process(messages, { ignoreList, switches, skipCount }) *)
process(messages, ignoreList, switch, skipCount) ==
    /\ divider.pc = "idle"
    /\ divider' = [pc |-> "returned", messages |-> messages,
                   skipCount |-> skipCount, switch |-> switch,
                   ignoreList |-> ignoreList,
                   newMessages |-> processFrom(messages, 1, skipCount,
                                               ignoreList, switch)]
    /\ DividerOnly

InitDivider == InitExec

NextDivider ==
    /\ divider.pc = "idle"
    /\ \E content \in Contents, ignoreList \in IgnoreLists,
          switch \in BOOLEAN, skipCount \in 0..1 :
             process(<<SystemPromptMessage,
                       [role |-> "assistant", content |-> content]>>,
                     ignoreList, switch, skipCount)

SpecDivider == InitDivider /\ [][NextDivider]_vars

-----------------------------------------------------------------------------
(* start_service.js: the launcher of the independent GroupChat service.    *)
(* children are the processes forked so far, serviceProcess is the index   *)
(* of the one the module variable refers to, 0 for null.                   *)

MaxChildren == 4
MaxStops == 2
ServiceExitCodes == {0, 1, 2}
ServiceSignals == {"SIGTERM", "SIGKILL"}

LauncherOnly ==
    UNCHANGED <<baseVars, stamp, cmd, chat, shell, fetcher, divider>>

Forked == [state |-> "running", ready |-> FALSE, code |-> 0,
           signal |-> "none"]

(* fork(servicePath) and the assignment to serviceProcess. *)
startService(l) ==
    [l EXCEPT !.children = Append(@, Forked),
              !.serviceProcess = Len(l.children) + 1]

(* The PluginManager calls startService and keeps the stop handle. *)
startService_called ==
    /\ launcher.pc = "idle"
    /\ launcher' = startService([pc |-> "started", children |-> <<>>,
                                 serviceProcess |-> 0, stops |-> 0])
    /\ LauncherOnly

(* The child's 'ready' message. *)
service_message(i) ==
    /\ launcher.pc = "started"
    /\ i \in DOMAIN launcher.children
    /\ launcher.children[i].state \in {"running", "stopping"}
    /\ ~launcher.children[i].ready
    /\ launcher' = [launcher EXCEPT !.children[i].ready = TRUE]
    /\ LauncherOnly

(* The child's 'exit' event: killed by a signal, exited with an error code *)
(* (the service is started again), or exited with code 0.                  *)
service_exit(i, code, signal) ==
    /\ launcher.pc = "started"
    /\ i \in DOMAIN launcher.children
    /\ launcher.children[i].state \in {"running", "stopping"}
    /\ (signal = "none" /\ code # 0) => Len(launcher.children) < MaxChildren
    /\ LET exited == [launcher EXCEPT
              !.children[i] = [@ EXCEPT !.state = "exited",
                                        !.code = IF signal = "none" THEN code
                                                 ELSE 0,
                                        !.signal = signal]]
           restarted == IF signal = "none" /\ code # 0
                        THEN startService(exited) ELSE exited
       IN launcher' = [restarted EXCEPT !.serviceProcess = 0]
    /\ LauncherOnly

(* The stop handle returned by startService. *)
stop ==
    /\ launcher.pc = "started"
    /\ launcher.stops < MaxStops
    /\ launcher' =
          IF launcher.serviceProcess # 0
          THEN [launcher EXCEPT
                  !.stops = @ + 1,
                  !.children[launcher.serviceProcess].state = "stopping"]
          ELSE [launcher EXCEPT !.stops = @ + 1]
    /\ LauncherOnly

InitLauncher == InitExec

NextLauncher ==
    \/ startService_called
    \/ \E i \in 1..MaxChildren : service_message(i)
    \/ \E i \in 1..MaxChildren, code \in ServiceExitCodes,
          signal \in ServiceSignals \cup {"none"} :
          service_exit(i, code, signal)
    \/ stop

SpecLauncher == InitLauncher /\ [][NextLauncher]_vars

-----------------------------------------------------------------------------
(* Properties.                                                             *)

OwnedBy(pl, serverId) ==
    {n \in DOMAIN pl : pl[n].isDistributed /\ pl[n].serverId = serverId}
LoadStepTaken == lp' # lp \/ nLoads' # nLoads
LoadCompleted == nLoads' = nLoads + 1 /\ lp.pc # "readdir"

(* C1: no step replaces an existing entry of the manifest map: a name      *)
(* that is in the map before and after a step holds the same manifest.     *)
C1_NeverReplaced ==
    [][\A n \in DOMAIN plugins \cap DOMAIN plugins' :
          plugins'[n] = plugins[n]]_vars

(* C2: a step of unregisterAllDistributedTools(S) leaves no entry owned by *)
(* S, makes processToolCall throw plugin-not-found for each tool S owned,  *)
(* and leaves every other entry, local or of another server, as it was.    *)
C2_SessionEnd ==
    [][evicted'.serverId # NoServer =>
          LET S == evicted'.serverId
          IN /\ OwnedBy(plugins', S) = {}
             /\ \A n \in OwnedBy(plugins, S) :
                   /\ processToolCall(n)'.thrown
                   /\ processToolCall(n)'.kind = "plugin_not_found"
             /\ \A n \in DOMAIN plugins \ OwnedBy(plugins, S) :
                   getPlugin(n)' = plugins[n]
             /\ DOMAIN plugins' \subseteq DOMAIN plugins]_vars

(* C2, its case: server S1's session has just ended, taking a tool with    *)
(* it, while a local plugin and a tool of S2 are in the map.               *)
C2_Witness ==
    /\ evicted.serverId = "S1"
    /\ evicted.names # {}
    /\ \A n \in evicted.names : processToolCall(n).kind = "plugin_not_found"
    /\ OwnedBy(plugins, "S2") # {}
    /\ \E n \in DOMAIN plugins : ~plugins[n].isDistributed

(* C3: a step of unregisterAllDistributedTools(S) removes every key that   *)
(* holds a value S installed, so that getPlaceholderValue gives the        *)
(* not-found text for it.                                                  *)
C3_PlaceholdersEvicted ==
    [][evicted'.serverId # NoServer =>
          \A k \in DOMAIN staticPlaceholderValues :
             staticPlaceholderValues[k] = PlaceholderText(evicted'.serverId)
             => /\ ~Has(staticPlaceholderValues', k)
                /\ getPlaceholderValue(k)' = NotFoundText(k)]_vars

(* C4: no step of loadPlugins touches a distributed entry: getPlugin       *)
(* returns it afterwards as before, isDistributed and serverId included.   *)
C4_RemoteRetained ==
    [][LoadStepTaken =>
          \A n \in DOMAIN plugins :
             plugins[n].isDistributed => getPlugin(n)' = plugins[n]]_vars

(* C5: a load that completes with no filesystem change since the previous  *)
(* completed load leaves the manifest map, the preprocessor order, the     *)
(* module map and the scheduled jobs as that load left them.               *)
C5_ReloadIdempotent ==
    [][(LoadCompleted /\ nLoads >= 1 /\ ~fsDirty /\ lastLoad.ok)
          => lastLoad' = lastLoad]_vars

(* C6: once a load has completed and the filesystem is as that load saw    *)
(* it, a loaded plugin whose folder holds config.env with K=V resolves K   *)
(* to V, coerced by the type its configSchema declares for K.              *)
C6_ConfigRoundTrip ==
    (lp.pc = "idle" /\ nLoads >= 1 /\ lastLoad.ok /\ ~fsDirty) =>
       \A folder \in Range(Folders) :
          LET manifest == disk[folder].manifest
              env == disk[folder].env
          IN (/\ manifest # NoManifest
              /\ Has(plugins, manifest.name)
              /\ plugins[manifest.name].basePath = folder
              /\ env.exists)
             => getResolvedPluginConfigValue(manifest.name, "K")
                   = CoerceBySchema(manifest.configSchema["K"], env.vars["K"])

(* What JavaScript gives for the raw strings the resolver is tried on:    *)
(* parseInt(raw, 10), and whether raw lower-cased is "true".               *)
ExpectedInteger(raw) ==
    CASE raw = <<"4", "2">> -> IntV(42)
      [] raw = <<"-", "7">> -> IntV(0 - 7)
      [] raw = <<" ", "1", "2", "a">> -> IntV(12)
      [] raw = <<"1">> -> IntV(1)
      [] OTHER -> Undefined
ExpectedBoolean(raw) ==
    BoolV(raw \in { <<"t", "r", "u", "e">>, <<"T", "r", "U", "E">>,
                    <<"T", "R", "U", "E">> })
ExpectedValue(declared, raw) ==
    CASE declared = "integer" -> ExpectedInteger(raw)
      [] declared = "boolean" -> ExpectedBoolean(raw)
      [] OTHER -> StrV(raw)

CfgDefined(key) ==
    Has(cfgManifest.pluginSpecificEnvConfig, key) \/ Has(cfgEnv, key)
CfgFirstDefined(key) ==
    IF Has(cfgManifest.pluginSpecificEnvConfig, key)
    THEN cfgManifest.pluginSpecificEnvConfig[key]
    ELSE cfgEnv[key]

(* The type a key is declared with; an undeclared key is left as read.   *)
DeclaredType(key) ==
    IF Has(cfgManifest.configSchema, key)
    THEN cfgManifest.configSchema[key] ELSE "string"

(* C7 as stated: every config key, declared in configSchema or not and     *)
(* DebugMode among them, resolves to the first defined of the plugin's     *)
(* value and the process's, coerced by its declared type; DebugMode is     *)
(* always present, false when defined in neither.                          *)
C7_AsStated ==
    cfgOut.done =>
       /\ \A key \in {CfgKey, "DebugMode"} :
             CfgDefined(key) =>
                ConfigValue(cfgOut.config, key)
                   = ExpectedValue(DeclaredType(key), CfgFirstDefined(key))
       /\ Has(cfgOut.config, "DebugMode")
       /\ ~CfgDefined("DebugMode")
             => cfgOut.config["DebugMode"] = BoolV(FALSE)

(* C7, amended: the rule holds for every key declared in configSchema      *)
(* other than DebugMode (a declared key defined in neither source is left  *)
(* out); a key that configSchema does not declare has no effective value,  *)
(* whatever the sources define; DebugMode is always present and is the     *)
(* boolean reading of its first defined value whatever type is declared    *)
(* for it, false when defined in neither.                                  *)
C7_EffectiveConfig ==
    cfgOut.done =>
       /\ \A key \in DOMAIN cfgManifest.configSchema \ {"DebugMode"} :
             ConfigValue(cfgOut.config, key)
                = IF CfgDefined(key)
                  THEN ExpectedValue(cfgManifest.configSchema[key],
                                     CfgFirstDefined(key))
                  ELSE Undefined
       /\ Has(cfgOut.config, "DebugMode")
       /\ cfgOut.config["DebugMode"]
             = IF CfgDefined("DebugMode")
               THEN ExpectedBoolean(CfgFirstDefined("DebugMode"))
               ELSE BoolV(FALSE)
       /\ DOMAIN cfgOut.config
             \subseteq DOMAIN cfgManifest.configSchema \cup {"DebugMode"}

(* C7, its case: K is declared integer and defined in both sources with    *)
(* different values, DebugMode is declared a string and defined; the       *)
(* plugin's own K is the one parsed and DebugMode comes out a boolean.     *)
C7_Witness ==
    /\ cfgOut.done
    /\ cfgManifest.configSchema = ("K" :> "integer") @@ ("DebugMode" :> "string")
    /\ cfgManifest.pluginSpecificEnvConfig = ("K" :> <<"4", "2">>)
    /\ cfgEnv = ("K" :> <<"-", "7">>) @@ ("DebugMode" :> <<"T", "R", "U", "E">>)
    /\ cfgOut.config = ("K" :> IntV(42)) @@ ("DebugMode" :> BoolV(TRUE))

(* The order file as the completing step of a load read it, and the names  *)
(* it contributes.                                                         *)
SavedNames ==
    IF lp.pc = "readOrder" /\ orderFile.exists /\ orderFile.array
    THEN orderFile.names ELSE <<>>
FirstIndex(seq, x) == CHOOSE i \in DOMAIN seq :
                         seq[i] = x /\ \A j \in 1..(i - 1) : seq[j] # x

C9_AsStated ==
    (lp.pc = "idle" /\ nLoads >= 1 /\ lastLoad.ok /\ ~fsDirty
        /\ orderFile.exists)
       => orderFile = OrderArray(preprocessorOrder)

(* C9, amended: a step of a load writes the order file only when the file  *)
(* did not exist at the load's access check and the reconciled order is    *)
(* not empty, and a write that succeeds leaves in the file exactly the     *)
(* order stored in memory; a load that found the file, or reconciled to    *)
(* the empty order, leaves the file as it was.                             *)
C9_OrderFileCreated ==
    [][LoadStepTaken =>
          IF lp.pc = "writeOrder"
          THEN /\ orderFile' \in {orderFile, OrderArray(preprocessorOrder')}
               /\ ~orderFile.exists
               /\ preprocessorOrder' # <<>>
          ELSE orderFile' = orderFile]_vars

(* C9, its case: a load that found no order file has created it with the   *)
(* three discovered names in lexicographic order.                          *)
C9_Witness ==
    /\ lp.pc = "idle"
    /\ nLoads = 1
    /\ lastLoad.ok
    /\ fsEdits = 0
    /\ preprocessorOrder = <<"A", "B", "D">>
    /\ orderFile = OrderArray(<<"A", "B", "D">>)

(* The step failed: processMessages threw or rejected, or the module or    *)
(* the manifest is missing, or the module has no processMessages function. *)
StepFailed ==
    \/ ppLast.outcome \in {"throws", "rejects"}
    \/ ~Has(messagePreprocessors, ppLast.pluginName)
    \/ ~Has(plugins, ppLast.pluginName)
    \/ ~messagePreprocessors[ppLast.pluginName].processMessages

(* C10: executeMessagePreprocessor never throws, and a failed step returns *)
(* the messages it was given, which the request carries to the next step.  *)
C10_StepNeverFails ==
    ppLast.called =>
       /\ ~ppLast.threw
       /\ StepFailed => (ppLast.output = ppLast.input
                            /\ ppMessages = ppLast.input)
       /\ ~StepFailed => ppLast.output = Append(ppLast.input, ppLast.pluginName)

(* C10, its case: after a step that changed the messages, the next         *)
(* module's processMessages threw and the request still carries what the   *)
(* failed step was given.                                                  *)
C10_Witness ==
    /\ ppLast.called
    /\ ppLast.outcome = "throws"
    /\ Has(messagePreprocessors, ppLast.pluginName)
    /\ Has(plugins, ppLast.pluginName)
    /\ messagePreprocessors[ppLast.pluginName].processMessages
    /\ Len(ppLast.input) >= 2
    /\ ppMessages = ppLast.input

(* getPreprocessorOrder: the stored order with each name's display name.   *)
getPreprocessorOrder ==
    [i \in DOMAIN preprocessorOrder |->
        [name |-> preprocessorOrder[i],
         displayName |-> IF Has(plugins, preprocessorOrder[i])
                         THEN plugins[preprocessorOrder[i]].displayName
                         ELSE preprocessorOrder[i]]]

(* C11: at every await of a running reload, with the plugin directory as   *)
(* the previous load found it, the preprocessor chain is whole: the module *)
(* map is the one the previous load left, and every name that              *)
(* getPreprocessorOrder reports is run by executeMessagePreprocessor.      *)
C11_AtomicSwap ==
    (lp.pc # "idle" /\ nLoads >= 1 /\ lastLoad.ok /\ ~fsDirty)
       => /\ messagePreprocessors = lastLoad.messagePreprocessors
          /\ \A i \in DOMAIN getPreprocessorOrder :
                LET pluginName == getPreprocessorOrder[i].name
                IN executeMessagePreprocessor(pluginName, <<"user">>, "appends")
                      = Returned(<<"user", pluginName>>)

(* C12: at no time are two runs of loadPlugins in progress, whether they   *)
(* were started by the watcher's timer or by hotReloadPluginsAndOrder.     *)
C12_SingleFlight == reloads.watcher + reloads.admin <= 1

(* C13: the reload timer fires only when DebounceMs have passed since the  *)
(* last handled event, for a burst of at least one event, and leaves no    *)
(* other timer live; a handled event leaves exactly one live timer, armed  *)
(* for DebounceMs (the one armed before is cancelled); and a burst is      *)
(* followed by its reload.                                                 *)
C13_Debounce ==
    /\ [][/\ reloads'.watcher > reloads.watcher
             => /\ sinceEvent = DebounceMs
                /\ pendingEvents >= 1
                /\ reloads'.watcher = reloads.watcher + 1
                /\ timers' = EmptyMap
          /\ pendingEvents' > pendingEvents
             => /\ DOMAIN timers' = {reloadTimeout'}
                /\ timers'[reloadTimeout'] = DebounceMs]_vars
    /\ (pendingEvents > 0) ~> (pendingEvents = 0 /\ reloads.watcher > 0)

(* C13, its case: three events, each less than DebounceMs after the one    *)
(* before, have been followed by one run of loadPlugins, started by the    *)
(* timer DebounceMs after the third, and no other reload has run.          *)
C13_Witness ==
    /\ lastFire = [fired |-> TRUE, events |-> 3, since |-> DebounceMs]
    /\ nEvents = 3
    /\ reloads = [watcher |-> 1, admin |-> 0]
    /\ lastReload = NoReload
    /\ nAdminCalls = 0
    /\ timers = EmptyMap

(* C14: a hot reload that settles has broadcast plugins-reloaded once when *)
(* it succeeded and not at all when it failed, whoever started it.         *)
C14_ReloadSignal ==
    lastReload.caller # "none"
       => lastReload.signals = IF lastReload.ok THEN 1 ELSE 0

(* C15: a save of the order file from outside is eventually followed by    *)
(* the start of a reload.                                                  *)
C15_OrderFileReload == orderStale ~> ~orderStale

CronPlugins(pl) ==
    {n \in StaticPlugins(pl) : pl[n].refreshIntervalCron # NoCron}
Initialized == \E i \in DOMAIN refreshing : refreshing[i].origin = "initial"

(* C16: when a reload completes (a load after the static plugins were      *)
(* initialized), scheduledJobs holds a job for exactly the static plugins  *)
(* of the manifest map that declare refreshIntervalCron.                   *)
C16_JobsRebuilt ==
    [][(LoadCompleted /\ Initialized)
          => DOMAIN scheduledJobs' = CronPlugins(plugins')]_vars

(* C17: once initializeStaticPlugins has seeded the placeholders of a      *)
(* static plugin, and while that plugin is in the manifest map, none of    *)
(* its placeholders resolves to the not-found text.                        *)
C17_NeverUnset ==
    \A i \in DOMAIN refreshing :
       LET plugin == refreshing[i].plugin
       IN (refreshing[i].origin = "initial" /\ getPlugin(plugin.name) = plugin)
             => \A k \in plugin.systemPromptPlaceholders :
                   getPlaceholderValue(k) # NotFoundText(k)

(* The refresh that settles in this step, if one does. *)
Settling(i) ==
    /\ i \in DOMAIN refreshing
    /\ ~refreshing[i].done
    /\ refreshing'[i].done
ErrorSentinels ==
    { ErrorText(n, o.message) : n \in StaticNames, o \in CommandOutcomes }

(* C18 as stated: after a refresh each declared placeholder holds the new  *)
(* output when it is not empty; on failure a new error sentinel exactly    *)
(* when the prior value was absent or an error sentinel, else the prior    *)
(* value; on empty output the unavailable sentinel exactly when there was  *)
(* no prior value, else the prior value.                                   *)
C18_AsStated ==
    [][\A i \in 1..MaxRefreshes :
          Settling(i) =>
             LET plugin == refreshing[i].plugin
                 outcome == refreshing'[i].outcome
             IN \A k \in plugin.systemPromptPlaceholders :
                   staticPlaceholderValues'[k] =
                      IF ~outcome.failed /\ outcome.output # ""
                      THEN outcome.output
                      ELSE IF outcome.failed
                      THEN IF ~Has(staticPlaceholderValues, k)
                              \/ staticPlaceholderValues[k] \in ErrorSentinels
                           THEN ErrorText(plugin.name, outcome.message)
                           ELSE staticPlaceholderValues[k]
                      ELSE IF ~Has(staticPlaceholderValues, k)
                      THEN UnavailableText(plugin.name)
                      ELSE staticPlaceholderValues[k]]_vars

(* C18, amended: the same rule, where on failure the new error sentinel is *)
(* installed exactly when the prior value was absent or begins with        *)
(* "[Error", be it a sentinel or text the plugin itself produced; every    *)
(* other key of the table is left as it was.                               *)
C18_UpdateRule ==
    [][\A i \in 1..MaxRefreshes :
          Settling(i) =>
             LET plugin == refreshing[i].plugin
                 outcome == refreshing'[i].outcome
             IN /\ \A k \in plugin.systemPromptPlaceholders :
                      staticPlaceholderValues'[k] =
                         IF ~outcome.failed /\ outcome.output # ""
                         THEN outcome.output
                         ELSE IF outcome.failed
                         THEN IF ~Has(staticPlaceholderValues, k)
                                 \/ StartsWithError(staticPlaceholderValues[k])
                              THEN ErrorText(plugin.name, outcome.message)
                              ELSE staticPlaceholderValues[k]
                         ELSE IF ~Has(staticPlaceholderValues, k)
                         THEN UnavailableText(plugin.name)
                         ELSE staticPlaceholderValues[k]
                /\ \A k \in DOMAIN staticPlaceholderValues'
                               \ plugin.systemPromptPlaceholders :
                      /\ Has(staticPlaceholderValues, k)
                      /\ staticPlaceholderValues'[k] = staticPlaceholderValues[k]]_vars

(* C18, its case: a scheduled refresh of W that failed has left the value  *)
(* "v1" of an earlier refresh in place.                                    *)
C18_Witness ==
    \E i \in DOMAIN refreshing :
       /\ refreshing[i].done
       /\ refreshing[i].origin = "cron"
       /\ refreshing[i].plugin.name = "W"
       /\ refreshing[i].outcome = Rejected("timed out")
       /\ getPlaceholderValue("PHW") = "v1"

(* C19: at no time are two refreshes of the same static plugin running.    *)
C19_SerialRefresh ==
    \A name \in StaticNames : Cardinality(Running(name)) <= 1

TimeoutFiring == exec.pc = "called" /\ exec.timeoutId = "armed"
                    /\ exec'.timeoutId = "fired"
TimeoutErrors == {"initial response timed out", "execution timed out"}

C21_AckOnce ==
    [][/\ (exec.pc = "called" /\ exec.isAsyncPlugin
              /\ exec.promise.state = "resolved")
          => exec'.promise = exec.promise
       /\ (exec.pc = "called" /\ exec.isAsyncPlugin
              /\ exec.promise.state # "pending")
          => /\ exec'.promise.state = exec.promise.state
             /\ exec'.promise.value = exec.promise.value]_vars

(* C21, its case: after the acknowledgement came more stdout, stderr       *)
(* output, the timer and the child's exit; resolve was called once.        *)
C21_Witness ==
    /\ exec.pc = "called"
    /\ exec.isAsyncPlugin
    /\ exec.initialResponseSent
    /\ exec.chunks = MaxChunks
    /\ exec.errorOutput
    /\ exec.timeoutId = "fired"
    /\ exec.child = "exited"
    /\ exec.code = "nonzero"
    /\ exec.promise = [state |-> "resolved", value |-> "success", calls |-> 1]

(* The first top-level JSON object of the output, complete: from the first *)
(* opening brace to the brace that closes it; <<>> while it is incomplete. *)
FirstTopLevelObject(outputBuffer) ==
    LET opens == {i \in DOMAIN outputBuffer : outputBuffer[i] = "{"}
        closes(i) == {j \in (i + 1)..Len(outputBuffer) :
                         Depth(outputBuffer, j) = Depth(outputBuffer, i - 1)}
    IN IF opens = {} \/ closes(Lowest(opens)) = {} THEN <<>>
       ELSE SubSeq(outputBuffer, Lowest(opens), Lowest(closes(Lowest(opens))))

(* C22: for an asynchronous plugin the caller's promise is not left        *)
(* pending once the first complete top-level JSON object, one with a       *)
(* status of success or error, is in the output received so far.           *)
C22_ResolvesAtFirstObject ==
    (exec.pc = "called" /\ exec.isAsyncPlugin /\ exec.promise.state = "pending")
       => JSONparse(FirstTopLevelObject(exec.outputBuffer))
             \notin {"success", "error"}

SyncExit ==
    /\ exec.pc = "called"
    /\ ~exec.isAsyncPlugin
    /\ exec.promise.state = "pending"
    /\ exec.child = "running"
    /\ exec'.child = "exited"
    /\ exec'.signal = "none"

(* C23: for a synchronous plugin, stdout data never settles the call; at   *)
(* the child's exit the whole output decides: exit code 0 with output that *)
(* is not a JSON object with status success or error rejects; a non-zero  *)
(* code with a valid success object resolves with it; a non-zero code      *)
(* without a valid object rejects with the exit-code error, which carries  *)
(* the stdout excerpt when there was output and the stderr excerpt when    *)
(* there was stderr output.                                                *)
C23_SyncAtExit ==
    [][/\ (exec.pc = "called" /\ ~exec.isAsyncPlugin
              /\ exec'.chunks = exec.chunks + 1)
          => exec'.promise = exec.promise
       /\ SyncExit =>
            LET status == JSONparse(exec.outputBuffer)
                valid == status \in {"success", "error"}
                outcome == exec'.promise
            IN /\ (exec'.code = "zero" /\ ~valid)
                     => outcome.state = "rejected"
               /\ (exec'.code = "nonzero" /\ status = "success")
                     => /\ outcome.state = "resolved"
                        /\ outcome.value \in {"success", "success pluginStderr"}
               /\ (exec'.code = "nonzero" /\ ~valid)
                     => /\ outcome.state = "rejected"
                        /\ outcome.value \in
                              {"exited with code", "exited with code Stdout",
                               "exited with code Stderr",
                               "exited with code Stdout Stderr"}
                        /\ exec.errorOutput <=>
                              outcome.value \in
                                 {"exited with code Stderr",
                                  "exited with code Stdout Stderr"}
                        /\ (\E i \in DOMAIN exec.outputBuffer :
                               exec.outputBuffer[i] # " ") <=>
                              outcome.value \in
                                 {"exited with code Stdout",
                                  "exited with code Stdout Stderr"}]_vars

(* C23, its case: a synchronous plugin whose success object came in two    *)
(* chunks exited with a non-zero code and the call resolved with it.       *)
C23_Witness ==
    /\ exec.pc = "called"
    /\ ~exec.isAsyncPlugin
    /\ exec.child = "exited"
    /\ exec.code = "nonzero"
    /\ exec.signal = "none"
    /\ exec.outputBuffer = <<"{", "S", "}">>
    /\ exec.chunks = 2
    /\ exec.promise = [state |-> "resolved", value |-> "success", calls |-> 1]


(* C24: within one top-level processToolCall the plugin is executed at     *)
(* most twice and the remote file is fetched at most once.                 *)
C24_BoundedRetry == call.pc # "idle" => (call.executed <= 2 /\ call.fetched <= 1)

Base64Key(failedParam) ==
    IF failedParam = "image_url_1" THEN "image_base64_1" ELSE "image_base64_2"

C26_HappyPath ==
    (/\ call.pc = "returned"
     /\ call.via = "stdio"
     /\ call.pluginOutput.status = "success"
     /\ call.pluginOutput.result = JV("number", "42"))
       => /\ Has(call.outcome.fields, "timestamp")
          /\ Has(call.outcome.fields, "result")
          /\ call.outcome.fields["result"] = JV("number", "42")

C28_ErrorsAreJson ==
    call.pc = "thrown" =>
       /\ call.outcome.json
       /\ \/ Has(call.outcome.fields, "plugin_error")
          \/ Has(call.outcome.fields, "plugin_execution_error")

(* C29: a call to a loaded plugin of type service or hybridservice whose   *)
(* module has a processToolCall function is dispatched to that function.   *)
C29_ServiceInProcess ==
    (/\ call.pc # "idle"
     /\ Has(plugins, call.toolName)
     /\ plugins[call.toolName].pluginType \in {"service", "hybridservice"}
     /\ getServiceModule(call.toolName).processToolCall)
       => call.via = "module"


(* The producer of a placeholder value: the server whose push carries that *)
(* text, else a local static plugin.                                       *)
ProducerOf(text) ==
    IF \E s \in Servers : text = PlaceholderText(s)
    THEN CHOOSE s \in Servers : text = PlaceholderText(s)
    ELSE "local"

(* C30: a placeholder key keeps its producer: no step replaces the value   *)
(* one producer (a local static plugin or a remote server) installed for a *)
(* key by a value of another producer.                                     *)
C30_OneProducer ==
    [][\A k \in DOMAIN staticPlaceholderValues
                   \cap DOMAIN staticPlaceholderValues' :
          ProducerOf(staticPlaceholderValues'[k])
             = ProducerOf(staticPlaceholderValues[k])]_vars


(* C33: whenever no load is running, individualPluginDescriptions has the  *)
(* key VCP<name> exactly for the plugins of the manifest map that declare  *)
(* an invocation command with a description.                               *)
C33_DescriptionsMatch ==
    lp.pc = "idle" =>
       individualPluginDescriptions =
          {"VCP" \o plugins[n].name :
              n \in {x \in DOMAIN plugins : plugins[x].invocationCommands}}


(* C35: after every completed loadPlugins, preprocessorOrder holds no name *)
(* twice and its names are the keys of messagePreprocessors, the modules   *)
(* that load registered.                                                   *)
C35_OrderMatchesModules ==
    (lp.pc = "idle" /\ nLoads > 0) =>
       /\ Len(preprocessorOrder) = Cardinality(Range(preprocessorOrder))
       /\ Range(preprocessorOrder) = DOMAIN messagePreprocessors


(* C36: a manifest change is never lost: after a watcher event has been    *)
(* delivered, also one delivered while isReloading is set, a reload        *)
(* eventually begins.                                                      *)
C36_NeverLost == manifestStale ~> ~manifestStale


(* C34: for every offset m the suffix of the timestamp is '+' when m <= 0  *)
(* and '-' when m > 0, followed by |m| div 60 as two-digit hours, a colon  *)
(* and |m| mod 60 as two-digit minutes.                                    *)
C34_OffsetSuffix ==
    stamp.pc = "returned" =>
       LET m == stamp.timezoneOffsetMinutes
       IN  stamp.timezoneString =
              (IF m <= 0 THEN "+" ELSE "-") \o padStart2(abs(m) \div 60)
                 \o ":" \o padStart2(abs(m) % 60)


(* C37: once the child of a static command has exited or the timer has     *)
(* fired, the promise of _executeStaticPluginCommand is settled, whatever  *)
(* the exit code and signal.                                               *)
C37_CommandSettles ==
    (cmd.pc # "idle" /\ (cmd.processExited \/ cmd.timeoutId = "fired"))
       => cmd.promise.state # "pending"

(* C37, the consequence: every started _updateStaticPluginValue completes. *)
C37_RefreshCompletes == (cmd.pc = "awaiting") ~> (cmd.pc = "completed")


(* C31: a socket whose upgrade path is the configured prefix followed by   *)
(* the id of a group in groupsState is accepted and is in that group's     *)
(* client set; only the other sockets are destroyed.                       *)
C31_KnownGroupAccepted ==
    chat.pc = "serving" =>
       \A s \in DOMAIN chat.sockets :
          LET socket == chat.sockets[s]
              groupId == StringValue(socket.pathname.rest)
          IN (socket.pathname.prefix = WS_PATH_PREFIX /\ socket.known) =>
                /\ socket.state = "open"
                /\ Has(chat.clients, groupId)
                /\ s \in chat.clients[groupId]


(* The layers the table of levels enables, an unknown level counting as    *)
(* standard. *)
LayersOfLevel(level) ==
    IF level = "basic" THEN {"blacklist"}
    ELSE IF level = "high" THEN {"blacklist", "whitelist", "ast", "sandbox"}
    ELSE IF level = "maximum"
    THEN {"blacklist", "whitelist", "ast", "sandbox", "audit"}
    ELSE {"blacklist", "whitelist", "sandbox"}

ChecksOfLevel(level) ==
    SelectSeq(CheckLayers, LAMBDA l : l \in LayersOfLevel(level))

(* C32: the checks a call runs are the enabled ones among blacklist,       *)
(* whitelist and AST, in that order, up to the first that fails; the       *)
(* command is run exactly when all of them passed (and the host can be     *)
(* reached), never after a rejection; an unknown level counts as standard. *)
C32_ChecksBeforeRun ==
    shell.pc = "returned" =>
       LET checks == ChecksOfLevel(shell.securityLevel)
           failing == {i \in DOMAIN checks : ~shell.passed[checks[i]]}
       IN /\ shell.layers = IF failing = {} THEN checks
                            ELSE SubSeq(checks, 1, Lowest(failing))
          /\ failing # {} => shell.executed = "none" /\ shell.status = "blocked"
          /\ shell.executed # "none" => failing = {}
          /\ (failing = {} /\ shell.hostType = "local") =>
                shell.executed =
                   IF "sandbox" \in LayersOfLevel(shell.securityLevel)
                   THEN "sandbox" ELSE "direct"

(* The same for the levels that are not names of inherited properties. *)
ChecksBeforeRunOwnLevels ==
    (shell.pc = "returned" /\ shell.securityLevel \notin InheritedProperties)
       => C32_ChecksBeforeRun


(* A call made less than 5 s after the previous call for the same url,     *)
(* rejected or not, is rejected by the guard before any read.              *)
RepeatedRejected ==
    (fetcher.lastCall.previous # Never
       /\ fetcher.lastCall.at - fetcher.lastCall.previous
             < REQ_CACHE_EXPIRATION_MS)
       => fetcher.lastCall.guarded /\ fetcher.lastCall.pc = "rejected"

(* No remote request is sent less than 30 s after a remote request for the *)
(* same url failed.                                                        *)
QuietAfterFailure ==
    fetcher.lastRemote.sinceFailure # Never
       => fetcher.lastRemote.sinceFailure >= CACHE_EXPIRATION_MS

(* C38: a repeated request is rejected and restarts the window, a failed   *)
(* remote fetch silences the url for 30 s, and two remote requests for one *)
(* url are sent at least 5 s apart.                                        *)
C38_LoopGuard ==
    fetcher.pc = "serving" =>
       /\ RepeatedRejected
       /\ QuietAfterFailure
       /\ fetcher.lastRemote.previousAt # Never
             => fetcher.lastRemote.at - fetcher.lastRemote.previousAt
                   >= REQ_CACHE_EXPIRATION_MS

(* C38 amended: as C38, but the 5 s lie between the arrivals of the two    *)
(* fetchFile calls that sent the remote requests, not between the remote   *)
(* requests themselves, which are sent after the reads of the cache and of *)
(* the file have settled.                                                  *)
C38_LoopGuardByArrival ==
    fetcher.pc = "serving" =>
       /\ RepeatedRejected
       /\ QuietAfterFailure
       /\ fetcher.lastRemote.previousAt # Never
             => abs(fetcher.lastRemote.arrived
                       - fetcher.lastRemote.previousArrived)
                   >= REQ_CACHE_EXPIRATION_MS

C38_Witness ==
    /\ fetcher.pc = "serving"
    /\ fetcher.lastCall.guarded
    /\ fetcher.lastRemote.previousAt # Never
    /\ fetcher.lastRemote.sinceFailure # Never


(* The complete protected blocks of a content: a start marker, its end     *)
(* marker and no marker of that kind between them.                         *)
CompleteBlocks(text) ==
    { SubSeq(text, i, j) : <<i, j>> \in
        { p \in (DOMAIN text) \X (DOMAIN text) :
             /\ p[1] < p[2]
             /\ \E marker \in blockMarkers :
                   /\ text[p[1]] = marker.start
                   /\ text[p[2]] = marker.end
                   /\ \A k \in (p[1] + 1)..(p[2] - 1) :
                         text[k] \notin {marker.start, marker.end} } }

Occurrences(text, block) ==
    Cardinality({i \in DOMAIN text :
                    /\ i + Len(block) - 1 <= Len(text)
                    /\ SubSeq(text, i, i + Len(block) - 1) = block})

RECURSIVE OccurrencesIn(_, _)
OccurrencesIn(messages, block) ==
    IF messages = <<>> THEN 0
    ELSE Occurrences(Head(messages).content, block)
            + OccurrencesIn(Tail(messages), block)

(* C39: every complete protected block of a processed message is found,    *)
(* whole and unmodified, in the output as often as in the input, and the   *)
(* first skipCount messages are returned unchanged.                        *)
C39_BlocksIntact ==
    divider.pc = "returned" =>
       /\ \A i \in 1..divider.skipCount :
             divider.newMessages[i] = divider.messages[i]
       /\ LET processed == SubSeq(divider.messages, divider.skipCount + 1,
                                  Len(divider.messages))
              output == SubSeq(divider.newMessages, divider.skipCount + 1,
                               Len(divider.newMessages))
          IN \A m \in DOMAIN processed :
                \A block \in CompleteBlocks(processed[m].content) :
                   OccurrencesIn(output, block)
                      = OccurrencesIn(processed, block)


(* C40: whenever a service child is running, serviceProcess refers to it,  *)
(* also after a non-zero exit has started the service again.               *)
C40_HandleOnRunningChild ==
    launcher.pc = "started" =>
       \A i \in DOMAIN launcher.children :
          launcher.children[i].state \in {"running", "stopping"}
             => launcher.serviceProcess = i

=============================================================================
